---- MODULE Spec2Model ----
(***************************************************************************)
(* PlayPalace v11 server: the table/game lifecycle engine.                 *)
(*                                                                         *)
(*   Spec       the Server's lifecycle: startup load, authorize and        *)
(*              disconnect, the lobby menus, the events a table's game     *)
(*              handles, saving, restoring, destroying, ticking, shutdown  *)
(*   SpecSched  the TickScheduler task and the event handlers as asyncio   *)
(*              coroutines on one event loop, step by step                 *)
(*   SpecGame   one game with a round timer, persisted and rehydrated      *)
(***************************************************************************)
EXTENDS Integers, Sequences, FiniteSets, TLC

(***************************************************************************)
(* Bounds of the model.                                                    *)
(***************************************************************************)
MaxDbTables == 1
MaxLoadRows == 3
MaxNewTables == 1
MaxSaves == 1
MaxDelayTicks == 3
MaxRaces == 2
MaxSchedTables == 2
MaxTicks == 2
MaxScopaRounds == 2
ScopaDeals == 2
ScopaCardsPerDeal == 1
ScopaInitialTable == 1
ScopaTarget == 2
UnoStartingCards == 2
UnoSpareCards == 1
MaxUnoMoves == 3
MileHandSize == 2
MileSpareCards == 2
MileRoundDistance == 100
MileWinningScore == 600
MaxMileMoves == 3
MileTripBonus == 400
TradeDice == 1
TradeFaces == 2
TradeTarget == 3
MaxThinkTicks == 2
TradeIterations == 3
MaxIdArgs == 2
MaxIdleAnswers == 1
MaxGameTicks == 400
DirtyTrickTicks == 2
MaxCardPlays == 7

Users == {"alice", "bob"}
Bots == {"bot"}

VARIABLES
    phase,        \* Server: "new", "running", "aborted" (start() raised), "stopped"
    dbTables,     \* Database table 'tables': sequence of persisted rows
    savedTables,  \* Database table 'saved_tables': set of rows
    nextSaveId,   \* AUTOINCREMENT id of 'saved_tables'
    tables,       \* TableManager._tables: table_id -> Table
    nextTableId,  \* stands for the fresh id create_table generates
    users,        \* keys of Server._users
    userStates,   \* Server._user_states
    out,          \* what the last handler reported: a failure message, an exception
    sched,        \* SpecSched: TickScheduler and event loop
    gs            \* SpecGame: live game, persisted blob and history

vars == <<phase, dbTables, savedTables, nextSaveId, tables, nextTableId, users,
          userStates, out, sched, gs>>

serverVars == <<phase, dbTables, savedTables, nextSaveId, tables, nextTableId,
                users, userStates, out>>

(***************************************************************************)
(* Small helpers.                                                          *)
(***************************************************************************)
Range(s) == {s[i] : i \in 1..Len(s)}

Min(S) == CHOOSE x \in S : \A y \in S : x <= y

\* list.pop(index), for the list that is left
pop_at(s, i) == SubSeq(s, 1, i - 1) \o SubSeq(s, i + 1, Len(s))

RECURSIVE SeqWithout(_, _)
SeqWithout(s, x) ==
    IF s = <<>> THEN <<>>
    ELSE IF Head(s) = x THEN SeqWithout(Tail(s), x)
    ELSE <<Head(s)>> \o SeqWithout(Tail(s), x)

\* Nothing reported; a failure message spoken to a user; an exception that
\* left the handler.
NoOut == [req |-> "", user |-> "", msg |-> "", raised |-> FALSE, menu |-> "",
          listed |-> {}]

Spoke(u, msg) == [NoOut EXCEPT !.user = u, !.msg = msg]

Raised(b) == [NoOut EXCEPT !.raised = b]

\* The outcome of a restore request.
Restored(u, msg, raised) ==
    [NoOut EXCEPT !.req = "restore", !.user = u, !.msg = msg, !.raised = raised]

(***************************************************************************)
(* Game: the fields of the per-table game state the server and the round   *)
(* timer use.  Persisted fields are dataclass fields; has_timer is the     *)
(* runtime-only _round_timer helper.  Instrumentation, kept of rehydrated  *)
(* games: delivered, a tick or event reached the game; early, one did      *)
(* before the game was rebuilt.                                            *)
(***************************************************************************)
NoGame == [tag |-> "none"]
NoJson == [tag |-> "null"]
CorruptJson == [tag |-> "corrupt"]

NewGame(host) ==
    [tag |-> "game", status |-> "waiting", game_active |-> FALSE,
     players |-> <<host>>, host |-> host, turn_index |-> 0,
     current_race |-> 0, round_timer_state |-> "idle", round_timer_ticks |-> 0,
     rehydrated |-> FALSE, has_timer |-> TRUE, early |-> FALSE,
     delivered |-> FALSE]

\* Game.to_json: the dataclass fields, and nothing of the runtime helpers.
to_json(g) ==
    [tag |-> "json", status |-> g.status, game_active |-> g.game_active,
     players |-> g.players, host |-> g.host, turn_index |-> g.turn_index,
     current_race |-> g.current_race,
     round_timer_state |-> g.round_timer_state,
     round_timer_ticks |-> g.round_timer_ticks]

\* Whether from_json accepts the blob (it raises otherwise).
Deserializable(blob) == blob.tag = "json"

\* A plausible bug: a field left out of the round trip comes back as its default.
from_json_default_turn(blob) ==
    [tag |-> "game", status |-> blob.status, game_active |-> blob.game_active,
     players |-> blob.players, host |-> blob.host,
     turn_index |-> 0, current_race |-> blob.current_race,
     round_timer_state |-> blob.round_timer_state,
     round_timer_ticks |-> blob.round_timer_ticks,
     rehydrated |-> TRUE, has_timer |-> FALSE, early |-> FALSE,
     delivered |-> FALSE]

\* Game.from_json on a blob it accepts: a new object with the persisted fields;
\* the runtime helpers are not part of the blob.
from_json(blob) ==
    [tag |-> "game", status |-> blob.status, game_active |-> blob.game_active,
     players |-> blob.players, host |-> blob.host,
     turn_index |-> blob.turn_index, current_race |-> blob.current_race,
     round_timer_state |-> blob.round_timer_state,
     round_timer_ticks |-> blob.round_timer_ticks,
     rehydrated |-> TRUE, has_timer |-> FALSE, early |-> FALSE,
     delivered |-> FALSE]

\* MileByMileGame.rebuild_runtime_state / ScopaGame.rebuild_runtime_state:
\* a new RoundTimer bound to the game; the timer's state lives in the game's
\* fields and is left as loaded.
rebuild_runtime_state(g) == [g EXCEPT !.has_timer = TRUE]

\* GameRegistry / get_game_class: the registered game types.
RegisteredGameTypes == {"milebymile"}

get_game_class(game_type) == game_type \in RegisteredGameTypes

is_bot(name) == name \in Bots

get_player_by_name(g, name) == name \in Range(g.players)

(***************************************************************************)
(* Table and TableManager.  A Table is a record; the registry is a         *)
(* function from table ids to Tables.                                      *)
(***************************************************************************)
Member(name, spectator) == [username |-> name, is_spectator |-> spectator]

MemberNames(t) == {m.username : m \in t.members}

\* Table.add_member
add_member(t, name, spectator) ==
    IF name \in MemberNames(t) THEN t
    ELSE [t EXCEPT !.members = @ \cup {Member(name, spectator)}]

\* Table.remove_member
remove_member(t, name) ==
    [t EXCEPT !.members = {m \in @ : m.username # name}]

\* TableManager.add_table
add_table(reg, t) ==
    [i \in DOMAIN reg \cup {t.table_id} |-> IF i = t.table_id THEN t ELSE reg[i]]

\* TableManager.remove_table
remove_table(reg, id) == [i \in DOMAIN reg \ {id} |-> reg[i]]

\* TableManager.create_table: a fresh id, the host as first member, no game yet.
create_table(reg, id, game_type, host) ==
    add_table(reg, [table_id |-> id, game_type |-> game_type, host |-> host,
                    members |-> {Member(host, FALSE)}, game |-> NoGame])

\* TableManager.find_user_table: the first table the user is a member of.
UserTables(reg, name) == {i \in DOMAIN reg : name \in MemberNames(reg[i])}

HasTable(reg, name) == UserTables(reg, name) # {}

find_user_table(reg, name) == Min(UserTables(reg, name))

\* TableManager.get_waiting_tables
get_waiting_tables(reg, game_type) ==
    {i \in DOMAIN reg : /\ reg[i].game_type = game_type
                        /\ reg[i].game.tag = "game"
                        /\ reg[i].game.status = "waiting"}

(***************************************************************************)
(* Database: table 'tables'.                                               *)
(***************************************************************************)
\* Database.load_table: the Table a row yields; its game is restored later.
load_table(row) ==
    [table_id |-> row.table_id, game_type |-> row.game_type, host |-> row.host,
     members |-> row.members, game |-> NoGame]

\* Database.save_table, on what TableManager.save_all hands over.
save_table(t) ==
    [table_id |-> t.table_id, game_type |-> t.game_type, host |-> t.host,
     members |-> t.members,
     game_json |-> IF t.game.tag = "game" THEN to_json(t.game) ELSE NoJson]

RECURSIVE SetToSeq(_)
SetToSeq(S) ==
    IF S = {} THEN <<>> ELSE LET x == Min(S) IN <<x>> \o SetToSeq(S \ {x})

\* Database.save_all_tables: INSERT OR REPLACE of every live table.
save_all_tables(rows, reg) ==
    LET ids == SetToSeq(DOMAIN reg)
        kept == SelectSeq(rows, LAMBDA r : r.table_id \notin DOMAIN reg)
    IN kept \o [k \in 1..Len(ids) |-> save_table(reg[ids[k]])]

\* Database.delete_all_tables
delete_all_tables(rows) == <<>>

(***************************************************************************)
(* Server._load_tables.  A row is registered first and its game restored   *)
(* after; from_json raising leaves the loop, _load_tables and start().     *)
(***************************************************************************)
\* A plausible bug: the game is attached as from_json returned it.
restore_game_no_rebuild(json) == from_json(json)

\* Server._load_tables, lines 124-125 (and _restore_saved_table, 875-876).
restore_game(json) == rebuild_runtime_state(from_json(json))

RECURSIVE LoadFrom(_, _, _)
LoadFrom(rows, i, reg) ==
    IF i > Len(rows) THEN [reg |-> reg, ok |-> TRUE]
    ELSE LET row == rows[i]
             reg1 == add_table(reg, load_table(row))
         IN IF row.game_json = NoJson THEN LoadFrom(rows, i + 1, reg1)
            ELSE IF ~get_game_class(row.game_type) THEN LoadFrom(rows, i + 1, reg1)
            ELSE IF ~Deserializable(row.game_json) THEN [reg |-> reg1, ok |-> FALSE]
            ELSE LoadFrom(rows, i + 1,
                     [reg1 EXCEPT ![row.table_id].game = restore_game(row.game_json)])

\* Server.start: connect, _load_tables, then the transport and the scheduler.
ServerStart ==
    /\ phase = "new"
    /\ LET r == LoadFrom(dbTables, 1, tables)
       IN /\ tables' = r.reg
          /\ out' = Raised(~r.ok)
          /\ IF r.ok
             THEN /\ dbTables' = delete_all_tables(dbTables)
                  /\ phase' = "running"
             ELSE /\ dbTables' = dbTables
                  /\ phase' = "aborted"
    /\ UNCHANGED <<savedTables, nextSaveId, nextTableId, users, userStates,
                   sched, gs>>

(***************************************************************************)
(* MileByMileGame.on_start and _start_race, as far as the persisted        *)
(* lifecycle fields go.                                                    *)
(***************************************************************************)
start_race(g) == [g EXCEPT !.current_race = @ + 1, !.turn_index = 0]

on_start(g) ==
    start_race([g EXCEPT !.status = "playing", !.game_active = TRUE,
                         !.current_race = 0])

MinPlayers == 2
MaxPlayers == 9

(***************************************************************************)
(* The rows the database may hold when the server starts.                  *)
(***************************************************************************)
DbKinds == {"good", "corrupt", "lobby", "unknown"}

\* The hosts of the persisted tables; those not in Users stay away.
Names == <<"alice", "bob", "carol", "dave", "erin">>

DbHost(i) == Names[i]

DbGame(i) == [on_start([NewGame(DbHost(i)) EXCEPT !.players = <<DbHost(i), "bot">>])
                 EXCEPT !.turn_index = 1]

DbRow(i, kind) ==
    [table_id |-> i,
     game_type |-> IF kind = "unknown" THEN "nosuchgame" ELSE "milebymile",
     host |-> DbHost(i),
     members |-> {Member(DbHost(i), FALSE)},
     game_json |-> IF kind = "corrupt" THEN CorruptJson
                   ELSE IF kind = "lobby" THEN NoJson
                   ELSE to_json(DbGame(i))]

DbChoices(maxRows, kindsOf) ==
    UNION {{[k \in 1..n |-> DbRow(k, kinds[k])] : kinds \in [1..n -> kindsOf]}
           : n \in 0..maxRows}

\* A saved game whose blob no longer deserializes.
CorruptSaved ==
    [id |-> 1, username |-> "alice", game_type |-> "milebymile",
     game_json |-> CorruptJson,
     members |-> <<[username |-> "alice", is_bot |-> FALSE]>>]

NoState == [menu |-> "none", table_id |-> 0, save_id |-> 0]

MenuState(menu) == [menu |-> menu, table_id |-> 0, save_id |-> 0]

InGameState(id) == [menu |-> "in_game", table_id |-> id, save_id |-> 0]

SchedIdle == [running |-> FALSE]

GameIdle == [tag |-> "none"]

InitServer(maxRows, kindsOf, saved) ==
    /\ phase = "new"
    /\ dbTables \in DbChoices(maxRows, kindsOf)
    /\ savedTables \in saved
    /\ nextSaveId = 2
    /\ tables = <<>>
    /\ nextTableId = maxRows + 1
    /\ users = {}
    /\ userStates = [u \in Users |-> NoState]
    /\ out = NoOut
    /\ sched = SchedIdle
    /\ gs = GameIdle

Init == InitServer(MaxDbTables, {"good", "corrupt", "unknown"}, {{}, {CorruptSaved}})

InitLoad == InitServer(MaxLoadRows, DbKinds, {{}})

(***************************************************************************)
(* Connections.                                                            *)
(***************************************************************************)
\* Server._show_main_menu
show_main_menu(us, u) == [us EXCEPT ![u] = MenuState("main_menu")]

\* Whether the user's events go to a table's game: the table exists and has a game.
AtTable(u) ==
    /\ HasTable(tables, u)
    /\ tables[find_user_table(tables, u)].game.tag = "game"

\* Server._handle_authorize, for credentials the AuthManager accepts.
Authorize(u) ==
    /\ phase = "running"
    /\ u \notin users
    /\ users' = users \cup {u}
    /\ IF AtTable(u)
       THEN LET id == find_user_table(tables, u)
            IN IF get_player_by_name(tables[id].game, u)
               THEN userStates' = [userStates EXCEPT ![u] = InGameState(id)]
               ELSE userStates' = userStates
       ELSE userStates' = show_main_menu(userStates, u)
    /\ out' = NoOut
    /\ UNCHANGED <<phase, dbTables, savedTables, nextSaveId, tables, nextTableId,
                   sched, gs>>

\* Server._on_client_disconnect
Disconnect(u) ==
    /\ phase = "running"
    /\ u \in users
    /\ users' = users \ {u}
    /\ userStates' = [userStates EXCEPT ![u] = NoState]
    /\ out' = NoOut
    /\ UNCHANGED <<phase, dbTables, savedTables, nextSaveId, tables, nextTableId,
                   sched, gs>>

(***************************************************************************)
(* Server._handle_menu for a user whose events are not delegated to a      *)
(* game: the lobby menus.  The options and language menus touch only the   *)
(* user's preferences and are left out.                                    *)
(***************************************************************************)
InLobby(u, menu) ==
    /\ phase = "running"
    /\ u \in users
    /\ ~AtTable(u)
    /\ userStates[u].menu = menu

\* Database.get_user_saved_tables
get_user_saved_tables(u) == {r \in savedTables : r.username = u}

\* Server._show_saved_tables_menu
show_saved_tables_menu(us, u) ==
    IF get_user_saved_tables(u) = {} THEN show_main_menu(us, u)
    ELSE [us EXCEPT ![u] = MenuState("saved_tables_menu")]

\* A plausible bug: every table of the game type is listed, started or not.
show_tables_menu_all(o, reg, u, game_type) ==
    [o EXCEPT !.user = u, !.menu = "tables_menu",
              !.listed = {i \in DOMAIN reg : reg[i].game_type = game_type}]

\* Server._show_tables_menu: the menu sent to the user has one item for each
\* table get_waiting_tables returns (beside "create_table" and "back").
show_tables_menu(o, reg, u, game_type) ==
    [o EXCEPT !.user = u, !.menu = "tables_menu",
              !.listed = get_waiting_tables(reg, game_type)]

\* _handle_main_menu_selection "play", then _handle_categories_selection
\* "category_*" and _handle_games_selection "game_*": three selections that
\* change only the user's menu, taken as one step down to the tables menu.
SelectPlay(u) ==
    /\ InLobby(u, "main_menu")
    /\ userStates' = [userStates EXCEPT ![u] = MenuState("tables_menu")]
    /\ out' = show_tables_menu(NoOut, tables, u, "milebymile")
    /\ UNCHANGED <<phase, dbTables, savedTables, nextSaveId, tables, nextTableId,
                   users, sched, gs>>

\* The "back" selection of each lobby menu.
SelectBack(u) ==
    /\ \/ /\ InLobby(u, "tables_menu")
          /\ userStates' = show_main_menu(userStates, u)
          /\ out' = NoOut
       \/ /\ InLobby(u, "join_menu")
          /\ userStates' = [userStates EXCEPT ![u] = MenuState("tables_menu")]
          /\ out' = show_tables_menu(NoOut, tables, u, "milebymile")
       \/ /\ InLobby(u, "saved_tables_menu")
          /\ userStates' = show_main_menu(userStates, u)
          /\ out' = NoOut
       \/ /\ InLobby(u, "saved_table_actions_menu")
          /\ userStates' = show_saved_tables_menu(userStates, u)
          /\ out' = NoOut
    /\ UNCHANGED <<phase, dbTables, savedTables, nextSaveId, tables, nextTableId,
                   users, sched, gs>>

\* _handle_tables_selection "create_table"
CreateTable(u) ==
    /\ InLobby(u, "tables_menu")
    /\ nextTableId <= MaxDbTables + MaxNewTables
    /\ LET id == nextTableId
           reg == create_table(tables, id, "milebymile", u)
       IN /\ tables' = [reg EXCEPT ![id].game = NewGame(u)]
          /\ userStates' = [userStates EXCEPT ![u] = InGameState(id)]
    /\ nextTableId' = nextTableId + 1
    /\ out' = NoOut
    /\ UNCHANGED <<phase, dbTables, savedTables, nextSaveId, users, sched, gs>>

\* _handle_tables_selection "table_<id>", for a table that exists.
SelectTable(u, id) ==
    /\ InLobby(u, "tables_menu")
    /\ id \in DOMAIN tables
    /\ userStates' = [userStates EXCEPT
                         ![u] = [menu |-> "join_menu", table_id |-> id, save_id |-> 0]]
    /\ out' = NoOut
    /\ UNCHANGED <<phase, dbTables, savedTables, nextSaveId, tables, nextTableId,
                   users, sched, gs>>

\* _handle_join_selection "join_player" and "join_spectator"
Join(u, spectator) ==
    /\ InLobby(u, "join_menu")
    /\ LET id == userStates[u].table_id
       IN IF id \notin DOMAIN tables \/ tables[id].game.tag # "game"
          THEN /\ userStates' = [userStates EXCEPT ![u] = MenuState("tables_menu")]
               /\ tables' = tables
               /\ out' = show_tables_menu(Spoke(u, "table-not-exists"), tables, u,
                                          "milebymile")
          ELSE IF ~spectator /\ Len(tables[id].game.players) >= MaxPlayers
          THEN /\ userStates' = [userStates EXCEPT ![u] = MenuState("tables_menu")]
               /\ tables' = tables
               /\ out' = show_tables_menu(Spoke(u, "table-full"), tables, u,
                                          "milebymile")
          ELSE /\ userStates' = [userStates EXCEPT ![u] = InGameState(id)]
               /\ out' = NoOut
               /\ tables' =
                    [tables EXCEPT ![id] =
                        IF spectator THEN add_member(@, u, TRUE)
                        ELSE [add_member(@, u, FALSE) EXCEPT
                                 !.game.players = Append(@, u)]]
    /\ UNCHANGED <<phase, dbTables, savedTables, nextSaveId, nextTableId, users,
                   sched, gs>>

\* _handle_main_menu_selection "saved_tables"
SelectSavedTables(u) ==
    /\ InLobby(u, "main_menu")
    /\ userStates' = show_saved_tables_menu(userStates, u)
    /\ out' = IF get_user_saved_tables(u) = {} THEN Spoke(u, "no-saved-tables")
              ELSE NoOut
    /\ UNCHANGED <<phase, dbTables, savedTables, nextSaveId, tables, nextTableId,
                   users, sched, gs>>

\* _handle_saved_tables_selection "saved_<id>": the id is the client's, here
\* that of a record in storage (the user's own or not).
SelectSaved(u, sid) ==
    /\ InLobby(u, "saved_tables_menu")
    /\ \E r \in savedTables : r.id = sid
    /\ userStates' = [userStates EXCEPT
          ![u] = [menu |-> "saved_table_actions_menu", table_id |-> 0, save_id |-> sid]]
    /\ out' = NoOut
    /\ UNCHANGED <<phase, dbTables, savedTables, nextSaveId, tables, nextTableId,
                   users, sched, gs>>

(***************************************************************************)
(* RoundTimer: its state lives in the game's round_timer_state and         *)
(* round_timer_ticks fields.  MaxDelayTicks stands for the delay in ticks  *)
(* (delay_seconds over the tick interval).                                 *)
(***************************************************************************)
timer_is_active(g) == g.round_timer_state # "idle"

timer_start(g) ==
    [g EXCEPT !.round_timer_state = "counting", !.round_timer_ticks = MaxDelayTicks]

timer_toggle_pause(g) ==
    IF g.round_timer_state = "counting" THEN [g EXCEPT !.round_timer_state = "paused"]
    ELSE IF g.round_timer_state = "paused" THEN [g EXCEPT !.round_timer_state = "counting"]
    ELSE g

\* ScopaGame._deal_cards: nothing from an empty deck; else every player draws,
\* the turn goes to the player after the dealer, _start_turn.
scopa_deal_cards(g) ==
    IF g.deck = 0 THEN g
    ELSE [g EXCEPT !.hands = [i \in 1..Len(g.players) |-> @[i] + ScopaCardsPerDeal],
                   !.deck = @ - ScopaCardsPerDeal * Len(g.players),
                   !.turn_index = (g.dealer_index + 1) % Len(g.players)]

\* ScopaGame._start_round: the round counter, the dealer rotates, a new deck,
\* the initial table, the first deal.
scopa_start_round(g) ==
    scopa_deal_cards(
        [g EXCEPT !.current_round = @ + 1,
                  !.last_capture_player = "",
                  !.hands = [i \in 1..Len(g.players) |-> 0],
                  !.dealer_index = (@ - 1) % Len(g.players),
                  !.deck = ScopaDeals * ScopaCardsPerDeal * Len(g.players),
                  !.table_cards = ScopaInitialTable,
                  !.turn_index = (((g.dealer_index - 1) % Len(g.players)) + 1)
                                    % Len(g.players)])

(***************************************************************************)
(* Mile by Mile at the level of its cards, in individual mode: team i is   *)
(* player i.  The decks of the model hold distance and remedy cards.       *)
(***************************************************************************)
MileCard(type, value, distance) ==
    [card_type |-> type, value |-> value, distance |-> distance]

MileKinds ==
    <<MileCard("distance", "50", 50), MileCard("remedy", "roll", 0),
      MileCard("distance", "100", 100), MileCard("remedy", "end_of_limit", 0)>>

\* cards.HAZARD_TO_SAFETY: the safety that blocks a hazard.
HAZARD_TO_SAFETY(hazard) ==
    IF hazard = "out_of_gas" THEN "extra_tank"
    ELSE IF hazard = "flat_tire" THEN "puncture_proof"
    ELSE IF hazard = "accident" THEN "driving_ace"
    ELSE "right_of_way"

\* cards.SAFETY_TO_HAZARD: the hazard a safety answers.
SAFETY_TO_HAZARD(safety) ==
    IF safety = "extra_tank" THEN "out_of_gas"
    ELSE IF safety = "puncture_proof" THEN "flat_tire"
    ELSE IF safety = "driving_ace" THEN "accident"
    ELSE "stop"

\* MileByMileTeam.has_any_problem: a problem other than a speed limit.
has_any_problem(team) == team.problems \ {"speed_limit"} # {}

\* MileByMileGame._can_play_hazard_on_team
can_play_hazard_on_team(g, hazard, target, attacker) ==
    IF HAZARD_TO_SAFETY(hazard) \in g.teams[target].safeties THEN FALSE
    ELSE IF /\ g.karma_rule
            /\ ~g.teams[attacker].has_karma
            /\ g.teams[target].has_karma
    THEN FALSE
    ELSE IF hazard = "speed_limit" THEN hazard \notin g.teams[target].problems
    ELSE IF g.allow_stacking_attacks THEN hazard \notin g.teams[target].problems
    ELSE ~has_any_problem(g.teams[target])

\* MileByMileGame._get_valid_hazard_targets
get_valid_hazard_targets(g, id, hazard) ==
    {t \in Range(g.players) \ {id} : can_play_hazard_on_team(g, hazard, t, id)}

\* MileByMileTeam.can_play_distance
can_play_distance(team) ==
    "right_of_way" \in team.safeties \/ team.problems \subseteq {"speed_limit"}

\* A plausible bug: _can_play_distance without the speed limit and the
\* perfect crossing checks.
mile_can_play_card_any_distance(g, id, card) ==
    LET team == g.teams[id]
    IN IF card.card_type = "distance"
       THEN can_play_distance(team)
       ELSE IF card.card_type = "hazard"
       THEN get_valid_hazard_targets(g, id, card.value) # {}
       ELSE IF card.card_type = "safety" THEN card.value \notin team.safeties
       ELSE IF card.value = "end_of_limit" THEN "speed_limit" \in team.problems
       ELSE IF card.value = "roll"
       THEN /\ "right_of_way" \notin team.safeties
            /\ "stop" \in team.problems
            /\ team.problems \subseteq {"stop", "speed_limit"}
       ELSE FALSE

\* MileByMileGame._can_play_card for the team of player id: _can_play_distance
\* and _can_play_remedy
mile_can_play_card(g, id, card) ==
    LET team == g.teams[id]
    IN IF card.card_type = "distance"
       THEN /\ can_play_distance(team)
            /\ ~("speed_limit" \in team.problems /\ card.distance > 50)
            /\ g.only_allow_perfect_crossing
                  => team.miles + card.distance <= MileRoundDistance
       ELSE IF card.card_type = "hazard"
       THEN get_valid_hazard_targets(g, id, card.value) # {}
       ELSE IF card.card_type = "safety" THEN card.value \notin team.safeties
       ELSE IF card.value = "end_of_limit" THEN "speed_limit" \in team.problems
       ELSE IF card.value = "roll"
       THEN /\ "right_of_way" \notin team.safeties
            /\ "stop" \in team.problems
            /\ team.problems \subseteq {"stop", "speed_limit"}
       ELSE FALSE

\* MileByMileGame._draw_card and the append to the hand: nothing from an empty
\* deck unless the discard pile is reshuffled into it.
mile_draw_card(g, id) ==
    LET g1 == IF g.deck # <<>> THEN g
              ELSE IF g.discard_pile = <<>> \/ ~g.reshuffle_discard_pile THEN g
              ELSE [g EXCEPT !.deck = g.discard_pile, !.discard_pile = <<>>]
    IN IF g1.deck = <<>> THEN g1
       ELSE [g1 EXCEPT !.hands[id] = Append(@, g1.deck[Len(g1.deck)]),
                       !.deck = SubSeq(@, 1, Len(@) - 1)]

\* MileByMileGame._start_turn: the current player draws a card.
mile_start_turn(g) == mile_draw_card(g, g.players[g.turn_index + 1])

RECURSIVE mile_deal(_, _, _)
mile_deal(g, ids, n) ==
    IF ids = <<>> THEN g
    ELSE IF n = 0 THEN mile_deal(g, Tail(ids), MileHandSize)
    ELSE mile_deal(mile_draw_card(g, Head(ids)), ids, n - 1)

\* MileByMileGame._start_race: the teams reset, a deck as shuffled (g.shuffled),
\* empty piles, the hands dealt, the first turn.
mile_start_race(g) ==
    mile_start_turn(mile_deal(
        [g EXCEPT !.current_race = @ + 1,
                  !.race_winner_team_index = -1,
                  !.teams = [id \in DOMAIN @ |->
                                [miles |-> 0, problems |-> {"stop"}, safeties |-> {},
                                 has_karma |-> TRUE]],
                  !.deck = g.shuffled,
                  !.discard_pile = <<>>,
                  !.protections_pile = <<>>,
                  !.hands = [id \in DOMAIN @ |-> <<>>],
                  !.turn_index = 0],
        g.players, MileHandSize))

\* MileByMileGame.on_round_timer_ready / ScopaGame.on_round_timer_ready
on_round_timer_ready(g) ==
    IF g.tag = "scopa" THEN scopa_start_round(g)
    ELSE IF g.tag = "mile" THEN mile_start_race(g)
    ELSE start_race(g)

\* A plausible bug: the countdown runs one tick longer.
timer_on_tick_late(g) ==
    IF g.round_timer_state # "counting" THEN g
    ELSE IF g.round_timer_ticks <= 0
    THEN on_round_timer_ready([g EXCEPT !.round_timer_state = "idle",
                                        !.round_timer_ticks = 0])
    ELSE [g EXCEPT !.round_timer_ticks = @ - 1]

\* A plausible bug: the timer is left counting when it reaches zero.
timer_on_tick_refires(g) ==
    IF g.round_timer_state # "counting" THEN g
    ELSE IF g.round_timer_ticks - 1 <= 0
    THEN on_round_timer_ready([g EXCEPT !.round_timer_ticks = 0])
    ELSE [g EXCEPT !.round_timer_ticks = @ - 1]

\* RoundTimer.on_tick
timer_on_tick(g) ==
    IF g.round_timer_state # "counting" THEN g
    ELSE IF g.round_timer_ticks - 1 <= 0
    THEN on_round_timer_ready([g EXCEPT !.round_timer_state = "idle",
                                        !.round_timer_ticks = 0])
    ELSE [g EXCEPT !.round_timer_ticks = @ - 1]

\* Instrumentation: the game is handed a tick or an event.
deliver(g) ==
    [g EXCEPT !.early = @ \/ (g.rehydrated /\ ~g.has_timer),
              !.delivered = g.rehydrated]

\* MileByMileGame.on_tick / ScopaGame.on_tick
game_on_tick(g) ==
    IF ~g.game_active THEN deliver(g) ELSE timer_on_tick(deliver(g))

(***************************************************************************)
(* Events the server delegates to the game of the user's table, and the    *)
(* server's membership cleanup after handle_event returns.                 *)
(***************************************************************************)
AtGame(u) ==
    /\ phase = "running"
    /\ u \in users
    /\ AtTable(u)
    /\ get_player_by_name(tables[find_user_table(tables, u)].game, u)

\* Server._handle_menu lines 557-560 (and _handle_keybind, _handle_editbox):
\* a user who is no longer a player leaves the membership and sees the main menu.
cleanup_table(t, u) ==
    IF get_player_by_name(t.game, u) THEN t ELSE remove_member(t, u)

cleanup_states(us, t, u) ==
    IF get_player_by_name(t.game, u) THEN us ELSE show_main_menu(us, u)

\* An event the game handles without a change the server can see.
GameEvent(u) ==
    /\ AtGame(u)
    /\ LET id == find_user_table(tables, u)
       IN tables' = [tables EXCEPT ![id].game = deliver(@)]
    /\ out' = NoOut
    /\ UNCHANGED <<phase, dbTables, savedTables, nextSaveId, nextTableId, users,
                   userStates, sched, gs>>

\* The player leaves the game.
GameLeave(u) ==
    /\ AtGame(u)
    /\ LET id == find_user_table(tables, u)
           t == [tables[id] EXCEPT !.game =
                    [deliver(@) EXCEPT !.players = SeqWithout(@, u)]]
       IN /\ tables' = [tables EXCEPT ![id] = cleanup_table(t, u)]
          /\ userStates' = cleanup_states(userStates, t, u)
    /\ out' = NoOut
    /\ UNCHANGED <<phase, dbTables, savedTables, nextSaveId, nextTableId, users,
                   sched, gs>>

\* The host starts the game.
GameStart(u) ==
    /\ AtGame(u)
    /\ LET id == find_user_table(tables, u)
           g == tables[id].game
       IN /\ g.host = u
          /\ g.status = "waiting"
          /\ Len(g.players) >= MinPlayers
          /\ tables' = [tables EXCEPT ![id].game = on_start(deliver(@))]
    /\ out' = NoOut
    /\ UNCHANGED <<phase, dbTables, savedTables, nextSaveId, nextTableId, users,
                   userStates, sched, gs>>

(***************************************************************************)
(* Table destruction: Table.destroy notifies the server and leaves the     *)
(* registry.                                                               *)
(***************************************************************************)
\* Server.on_table_destroy: the users shown the main menu.
on_table_destroy(t) ==
    IF t.game.tag # "game" THEN {}
    ELSE {p \in Range(t.game.players) : ~is_bot(p) /\ p \in users}

states_after_destroy(us, t) ==
    [u \in Users |-> IF u \in on_table_destroy(t) THEN MenuState("main_menu")
                     ELSE us[u]]

\* The host destroys the table: game.destroy().
GameDestroy(u) ==
    /\ AtGame(u)
    /\ LET id == find_user_table(tables, u)
           t == [tables[id] EXCEPT !.game = deliver(@)]
       IN /\ t.game.host = u
          /\ tables' = remove_table(tables, id)
          /\ userStates' = cleanup_states(states_after_destroy(userStates, t), t, u)
          /\ out' = NoOut
    /\ UNCHANGED <<phase, dbTables, savedTables, nextSaveId, nextTableId, users,
                   sched, gs>>

\* Server.on_table_save: the members list, with each player's bot flag.
members_data(g) ==
    [k \in 1..Len(g.players) |->
        [username |-> g.players[k], is_bot |-> is_bot(g.players[k])]]

\* Database.save_user_table
save_user_table(rows, id, username, game_type, game_json, members) ==
    rows \cup {[id |-> id, username |-> username, game_type |-> game_type,
                game_json |-> game_json, members |-> members]}

\* A plausible bug: the table is torn down before its record is written.
on_table_save_destroys_first(reg, rows, sid, t, u, stored) ==
    [tables |-> remove_table(reg, t.table_id),
     saved |-> IF stored
               THEN save_user_table(rows, sid, u, t.game_type, to_json(t.game),
                                    members_data(t.game))
               ELSE rows,
     raised |-> ~stored]

\* Server.on_table_save: the record is written by Database.save_user_table,
\* then the game is destroyed; when the INSERT raises, the handler is left
\* there and game.destroy() is not reached.
on_table_save(reg, rows, sid, t, u, stored) ==
    IF stored
    THEN [tables |-> remove_table(reg, t.table_id),
          saved |-> save_user_table(rows, sid, u, t.game_type, to_json(t.game),
                                    members_data(t.game)),
          raised |-> FALSE]
    ELSE [tables |-> [reg EXCEPT ![t.table_id] = t], saved |-> rows, raised |-> TRUE]

\* The host saves the table: Server.on_table_save writes the record and
\* destroys the table. The database stores the record or raises.
GameSave(u) ==
    /\ AtGame(u)
    /\ nextSaveId <= 1 + MaxSaves
    /\ \E stored \in BOOLEAN :
         LET id == find_user_table(tables, u)
             t == [tables[id] EXCEPT !.game = deliver(@)]
             r == on_table_save(tables, savedTables, nextSaveId, t, u, stored)
         IN /\ t.game.host = u
            /\ t.game.status = "playing"
            /\ savedTables' = r.saved
            /\ nextSaveId' = IF stored THEN nextSaveId + 1 ELSE nextSaveId
            /\ tables' = r.tables
            /\ userStates' =
                  IF id \in DOMAIN r.tables THEN userStates
                  ELSE cleanup_states(states_after_destroy(userStates, t), t, u)
            /\ out' = Raised(r.raised)
    /\ UNCHANGED <<phase, dbTables, nextTableId, users, sched, gs>>

(***************************************************************************)
(* Saved tables: restore and delete.                                       *)
(***************************************************************************)
\* Database.get_saved_table
HasSaved(sid) == \E r \in savedTables : r.id = sid

get_saved_table(sid) == CHOOSE r \in savedTables : r.id = sid

\* Database.delete_saved_table
delete_saved_table(rows, sid) == {r \in rows : r.id # sid}

\* _restore_saved_table lines 852-864: the human members who are offline or
\* already at a table.
missing_players(record) ==
    {m.username : m \in {x \in Range(record.members) :
                            /\ ~x.is_bot
                            /\ (x.username \notin users \/ HasTable(tables, x.username))}}

HumanMembers(record) ==
    {m.username : m \in {x \in Range(record.members) : ~x.is_bot}}

\* _handle_saved_table_actions_selection "restore": Server._restore_saved_table.
\* The table is created before the blob is deserialized; from_json raising
\* leaves the handler there.
Restore(u) ==
    /\ InLobby(u, "saved_table_actions_menu")
    /\ nextTableId <= MaxDbTables + MaxNewTables
    /\ LET sid == userStates[u].save_id
       IN IF ~HasSaved(sid)
          THEN /\ userStates' = show_main_menu(userStates, u)
               /\ out' = Restored(u, "table-not-exists", FALSE)
               /\ UNCHANGED <<tables, nextTableId, savedTables>>
          ELSE LET record == get_saved_table(sid)
                   id == nextTableId
                   reg == create_table(tables, id, record.game_type, u)
               IN IF ~get_game_class(record.game_type)
                  THEN /\ userStates' = show_main_menu(userStates, u)
                       /\ out' = Restored(u, "game-type-not-found", FALSE)
                       /\ UNCHANGED <<tables, nextTableId, savedTables>>
                  ELSE IF missing_players(record) # {}
                  THEN /\ userStates' = show_saved_tables_menu(userStates, u)
                       /\ out' = Restored(u, "missing-players", FALSE)
                       /\ UNCHANGED <<tables, nextTableId, savedTables>>
                  ELSE IF ~Deserializable(record.game_json)
                  THEN /\ tables' = reg
                       /\ nextTableId' = nextTableId + 1
                       /\ out' = Restored(u, "", TRUE)
                       /\ UNCHANGED <<userStates, savedTables>>
                  ELSE /\ tables' =
                            [reg EXCEPT ![id] =
                                [@ EXCEPT
                                   !.game = [restore_game(record.game_json)
                                                EXCEPT !.host = u],
                                   !.members = @ \cup {Member(n, FALSE) :
                                                  n \in HumanMembers(record) \ {u}}]]
                       /\ nextTableId' = nextTableId + 1
                       /\ userStates' = [x \in Users |->
                                           IF x \in HumanMembers(record)
                                           THEN InGameState(id) ELSE userStates[x]]
                       /\ savedTables' = delete_saved_table(savedTables, sid)
                       /\ out' = Restored(u, "", FALSE)
    /\ UNCHANGED <<phase, dbTables, nextSaveId, users, sched, gs>>

\* _handle_saved_table_actions_selection "delete"
DeleteSaved(u) ==
    /\ InLobby(u, "saved_table_actions_menu")
    /\ savedTables' = delete_saved_table(savedTables, userStates[u].save_id)
    /\ userStates' =
          IF {r \in savedTables' : r.username = u} = {}
          THEN show_main_menu(userStates, u)
          ELSE [userStates EXCEPT ![u] = MenuState("saved_tables_menu")]
    /\ out' = NoOut
    /\ UNCHANGED <<phase, dbTables, nextSaveId, tables, nextTableId, users,
                   sched, gs>>

(***************************************************************************)
(* The tick and shutdown.                                                  *)
(***************************************************************************)
\* TableManager.on_tick: every table's game is ticked.
tables_on_tick(reg) ==
    [i \in DOMAIN reg |->
        IF reg[i].game.tag = "game"
        THEN [reg[i] EXCEPT !.game = game_on_tick(@)] ELSE reg[i]]

\* Server._on_tick, one whole tick of the scheduler.
Tick ==
    /\ phase = "running"
    /\ tables' = tables_on_tick(tables)
    /\ out' = NoOut
    /\ UNCHANGED <<phase, dbTables, savedTables, nextSaveId, nextTableId, users,
                   userStates, sched, gs>>

\* Server.stop: _save_tables, then the scheduler, the transport, the database.
ServerStop ==
    /\ phase = "running"
    /\ dbTables' = save_all_tables(dbTables, tables)
    /\ phase' = "stopped"
    /\ out' = NoOut
    /\ UNCHANGED <<savedTables, nextSaveId, tables, nextTableId, users, userStates,
                   sched, gs>>

Next ==
    \/ ServerStart
    \/ \E u \in Users : Authorize(u)
    \/ \E u \in Users : Disconnect(u)
    \/ \E u \in Users : SelectPlay(u)
    \/ \E u \in Users : SelectBack(u)
    \/ \E u \in Users : CreateTable(u)
    \/ \E u \in Users : \E id \in DOMAIN tables : SelectTable(u, id)
    \/ \E u \in Users : \E spectator \in BOOLEAN : Join(u, spectator)
    \/ \E u \in Users : SelectSavedTables(u)
    \/ \E u \in Users : \E sid \in 1..(1 + MaxSaves) : SelectSaved(u, sid)
    \/ \E u \in Users : GameEvent(u)
    \/ \E u \in Users : GameLeave(u)
    \/ \E u \in Users : GameStart(u)
    \/ \E u \in Users : GameDestroy(u)
    \/ \E u \in Users : GameSave(u)
    \/ \E u \in Users : Restore(u)
    \/ \E u \in Users : DeleteSaved(u)
    \/ Tick
    \/ ServerStop

Spec == Init /\ [][Next]_vars

\* Startup and shutdown over a larger database, without the lobby.
NextLoad ==
    \/ ServerStart
    \/ \E u \in Users : Authorize(u)
    \/ \E u \in Users : Disconnect(u)
    \/ \E u \in Users : GameEvent(u)
    \/ Tick
    \/ ServerStop

SpecLoad == InitLoad /\ [][NextLoad]_vars

(***************************************************************************)
(* Properties of the server's lifecycle.                                   *)
(***************************************************************************)
\* C1: when a table leaves the registry by a destruction, every human member
\* attached at that moment, player or spectator, has been shown the main
\* menu by the destruction (and the table is no longer registered).
C1_DestroyReturnsEveryMember ==
    [][\A id \in DOMAIN tables \ DOMAIN tables' :
          \A m \in MemberNames(tables[id]) \cap users :
              userStates'[m] = MenuState("main_menu")]_vars

\* The rows _load_tables has nothing to deserialize for, or deserializes.
LoadableRows(rows) ==
    {k \in 1..Len(rows) : \/ rows[k].game_json = NoJson
                          \/ ~get_game_class(rows[k].game_type)
                          \/ Deserializable(rows[k].game_json)}

\* C5: the bulk load leaves out exactly the tables whose game JSON cannot be
\* deserialized, registers every other persisted table, and startup goes on.
C5_LoadIsolatesCorruptTables ==
    [][phase = "new" =>
          /\ phase' = "running"
          /\ DOMAIN tables' = {dbTables[k].table_id : k \in LoadableRows(dbTables)}]_vars

\* C6: startup registers every table of the store and leaves the store empty;
\* the store is empty while the server runs, and it is written only by the
\* load's delete and by the save at shutdown.
C6_StoreLoadedThenEmpty ==
    /\ [][phase = "new" =>
             /\ {dbTables[k].table_id : k \in 1..Len(dbTables)} \subseteq DOMAIN tables'
             /\ dbTables' = <<>>]_vars
    /\ [](phase = "running" => dbTables = <<>>)
    /\ [][dbTables' # dbTables =>
             \/ (phase = "new" /\ phase' = "running")
             \/ (phase = "running" /\ phase' = "stopped")]_vars

\* C7: every game a tick or an event can reach (the game of a registered
\* table) that came from from_json has had rebuild_runtime_state called, and
\* none was handed a tick or an event before that.
C7_RebuiltBeforeDelivery ==
    \A id \in DOMAIN tables :
        (tables[id].game.tag = "game" /\ tables[id].game.rehydrated) =>
            (tables[id].game.has_timer /\ ~tables[id].game.early)

\* A game restored from a saved table has been handed a tick or an event.
C7_Witness ==
    \E id \in DOMAIN tables :
        /\ id > MaxDbTables
        /\ tables[id].game.tag = "game"
        /\ tables[id].game.rehydrated
        /\ tables[id].game.delivered

\* The restore request of u is one whose record is there, whose members are
\* all available and whose blob from_json rejects.
RestoreOfCorrupt(u) ==
    /\ userStates[u].menu = "saved_table_actions_menu"
    /\ HasSaved(userStates[u].save_id)
    /\ LET record == get_saved_table(userStates[u].save_id)
       IN /\ get_game_class(record.game_type)
          /\ missing_players(record) = {}
          /\ ~Deserializable(record.game_json)

\* C8: a restore whose blob cannot be deserialized is reported to the user,
\* raises nothing out of the handler and leaves no table behind.
C8_FailedRestoreIsReported ==
    [][\A u \in Users :
          (RestoreOfCorrupt(u) /\ out'.req = "restore" /\ out'.user = u) =>
              /\ out'.msg # ""
              /\ ~out'.raised
              /\ DOMAIN tables' = DOMAIN tables]_vars

(***************************************************************************)
(* SpecSched: the TickScheduler's task and the server's coroutines on one  *)
(* asyncio event loop.  A coroutine keeps the thread (cpu) from one await  *)
(* to the next; the loop picks a ready coroutine only when the thread is   *)
(* idle.  sched holds the scheduler's fields and each coroutine's          *)
(* position:                                                               *)
(*   running    TickScheduler._running                                     *)
(*   task       _task: none, ready, in_callback, sleeping, done, cancelled,*)
(*              crashed (an exception left _tick_loop)                     *)
(*   cancelReq  task.cancel() was called and has not yet taken effect      *)
(*   cpu        who holds the thread: idle, tick, handler                  *)
(*   live, pending, ticked, raised   the fan-out of the tick in progress   *)
(*   escaped    an exception left TableManager.on_tick                     *)
(*   ticks      callbacks completed                                        *)
(*   handling   the users whose handlers are between handle_event and the  *)
(*              membership cleanup                                         *)
(*   stop       Server.stop / TickScheduler.stop: no, waiting, returned    *)
(***************************************************************************)
SchedNew ==
    [running |-> FALSE, task |-> "none", cancelReq |-> FALSE, cpu |-> "idle",
     live |-> {}, pending |-> {}, ticked |-> {}, raised |-> {},
     escaped |-> FALSE, ticks |-> 0, handling |-> {}, stop |-> "no"]

\* The rows of a store whose first table has two human players.
SchedRow(k) ==
    IF k = 1
    THEN [DbRow(1, "good") EXCEPT
            !.members = {Member("alice", FALSE), Member("bob", FALSE)},
            !.game_json = to_json([DbGame(1) EXCEPT !.players = <<"alice", "bob">>])]
    ELSE DbRow(k + 1, "good")

\* The registry after a startup that loaded n tables.
SchedTables(n) == LoadFrom([k \in 1..n |-> SchedRow(k)], 1, <<>>).reg

InitSched ==
    /\ phase = "running"
    /\ dbTables = <<>>
    /\ savedTables = {}
    /\ nextSaveId = 1
    /\ \E n \in 1..MaxSchedTables : tables = SchedTables(n)
    /\ nextTableId = MaxSchedTables + 1
    /\ users = Users
    /\ userStates = [u \in Users |->
          IF HasTable(tables, u) THEN InGameState(find_user_table(tables, u))
          ELSE MenuState("main_menu")]
    /\ out = NoOut
    /\ sched = SchedNew
    /\ gs = GameIdle

\* TickScheduler.start
SchedStart ==
    /\ sched.task = "none"
    /\ sched.stop = "no"
    /\ sched.cpu = "idle"
    /\ sched' = [sched EXCEPT !.running = TRUE, !.task = "ready"]
    /\ UNCHANGED serverVars
    /\ UNCHANGED gs

\* A plausible bug: the callback is awaited and yields between tables.
cpu_yields_in_callback == "idle"

\* _tick_loop line 43: the callback is called synchronously, the task keeps
\* the thread until the callback returns.
cpu_in_callback == "tick"

\* A plausible bug: the handler awaits between handle_event and the cleanup.
cpu_yields_after_handle_event == "idle"

\* _handle_menu lines 556-560: no await between handle_event and the cleanup.
cpu_after_handle_event == "handler"

\* The coroutine at this position goes on: it holds the thread, or the loop
\* resumes it from an await.
Resumable(who) == sched.cpu = who \/ sched.cpu = "idle"

\* _tick_loop: the loop runs the task; while self._running, the callback begins:
\* Server._on_tick, TableManager.on_tick over the tables there are.
TickBegin ==
    /\ sched.cpu = "idle"
    /\ sched.task = "ready"
    /\ ~sched.cancelReq
    /\ IF ~sched.running
       THEN sched' = [sched EXCEPT !.task = "done"]
       ELSE sched' = [sched EXCEPT !.task = "in_callback", !.cpu = cpu_in_callback,
                         !.live = {i \in DOMAIN tables : tables[i].game.tag = "game"},
                         !.pending = {i \in DOMAIN tables : tables[i].game.tag = "game"},
                         !.ticked = {}, !.raised = {}, !.escaped = FALSE]
    /\ UNCHANGED serverVars
    /\ UNCHANGED gs

\* A plausible bug: an exception of one game's on_tick leaves the fan-out.
on_tick_unisolated(pending, id) == [pending |-> {}, escaped |-> TRUE]

\* TableManager.on_tick when a game's on_tick raises: the exception is kept to
\* that table and the fan-out goes on with the others.
on_tick_isolated(pending, id) == [pending |-> pending \ {id}, escaped |-> FALSE]

\* TableManager.on_tick, one table of the fan-out: the game's on_tick returns
\* or raises.
TickTable(id, raises) ==
    /\ sched.task = "in_callback"
    /\ Resumable("tick")
    /\ sched.pending # {}
    /\ id = Min(sched.pending)
    /\ id \in DOMAIN tables
    /\ IF raises
       THEN /\ sched' = [sched EXCEPT
                  !.raised = @ \cup {id},
                  !.pending = on_tick_isolated(sched.pending, id).pending,
                  !.escaped = on_tick_isolated(sched.pending, id).escaped,
                  !.cpu = cpu_in_callback]
            /\ tables' = tables
       ELSE /\ sched' = [sched EXCEPT !.ticked = @ \cup {id},
                                      !.pending = @ \ {id},
                                      !.cpu = cpu_in_callback]
            /\ tables' = [tables EXCEPT ![id].game = game_on_tick(@)]
    /\ out' = NoOut
    /\ UNCHANGED <<phase, dbTables, savedTables, nextSaveId, nextTableId, users,
                   userStates, gs>>

\* The callback ends: _flush_user_messages; _tick_loop catches an exception
\* that left the callback (lines 44-45) and awaits asyncio.sleep.
TickEnd ==
    /\ sched.task = "in_callback"
    /\ Resumable("tick")
    /\ sched.pending = {}
    /\ sched' = [sched EXCEPT !.task = "sleeping", !.cpu = "idle",
                              !.ticks = @ + 1]
    /\ UNCHANGED serverVars
    /\ UNCHANGED gs

\* asyncio.sleep elapses.
TickWake ==
    /\ sched.task = "sleeping"
    /\ ~sched.cancelReq
    /\ sched.ticks < MaxTicks
    /\ sched' = [sched EXCEPT !.task = "ready"]
    /\ UNCHANGED serverVars
    /\ UNCHANGED gs

\* Game.handle_event of one game: the event is handled, the player may leave.
handle_event(g, u, leave) ==
    IF leave THEN [deliver(g) EXCEPT !.players = SeqWithout(@, u)] ELSE deliver(g)

\* A plausible bug: the games share their state, an event reaches them all.
handle_event_shared(reg, id, u, leave) ==
    [i \in DOMAIN reg |->
        IF reg[i].game.tag = "game"
        THEN [reg[i] EXCEPT !.game = handle_event(@, u, leave)] ELSE reg[i]]

\* Server._handle_menu lines 552-556: table.game.handle_event(player, packet),
\* on the game of the user's table and on no other.
handle_event_at(reg, id, u, leave) ==
    [reg EXCEPT ![id].game = handle_event(@, u, leave)]

\* Server._handle_menu lines 552-556 (_handle_keybind, _handle_editbox): the
\* game of the user's table handles the event; the player may leave by it.
HandleEvent(u, leave) ==
    /\ sched.cpu = "idle"
    /\ u \notin sched.handling
    /\ AtGame(u)
    /\ tables' = handle_event_at(tables, find_user_table(tables, u), u, leave)
    /\ sched' = [sched EXCEPT !.handling = @ \cup {u}, !.cpu = cpu_after_handle_event]
    /\ out' = NoOut
    /\ UNCHANGED <<phase, dbTables, savedTables, nextSaveId, nextTableId, users,
                   userStates, gs>>

\* Server._handle_menu lines 557-561: the membership cleanup, and the handler
\* returns.
HandleCleanup(u) ==
    /\ u \in sched.handling
    /\ Resumable("handler")
    /\ LET id == find_user_table(tables, u)
       IN /\ tables' = [tables EXCEPT ![id] = cleanup_table(@, u)]
          /\ userStates' = cleanup_states(userStates, tables[id], u)
    /\ sched' = [sched EXCEPT !.handling = @ \ {u}, !.cpu = "idle"]
    /\ out' = NoOut
    /\ UNCHANGED <<phase, dbTables, savedTables, nextSaveId, nextTableId, users, gs>>

\* Server.stop up to its first await: _save_tables, then TickScheduler.stop:
\* _running = False, task.cancel(), await the task.
StopBegin ==
    /\ phase = "running"
    /\ sched.cpu = "idle"
    /\ sched.stop = "no"
    /\ dbTables' = save_all_tables(dbTables, tables)
    /\ sched' = IF sched.task = "none"
                THEN [sched EXCEPT !.running = FALSE, !.stop = "returned"]
                ELSE [sched EXCEPT !.running = FALSE, !.stop = "waiting",
                         !.cancelReq = sched.task \notin {"done", "cancelled"}]
    /\ out' = NoOut
    /\ UNCHANGED <<phase, savedTables, nextSaveId, tables, nextTableId, users,
                   userStates, gs>>

\* The loop delivers CancelledError to the task at the await it is suspended at.
TaskCancelled ==
    /\ sched.cpu = "idle"
    /\ sched.cancelReq
    /\ sched.task \in {"ready", "sleeping", "in_callback"}
    /\ sched' = [sched EXCEPT !.task = "cancelled", !.cancelReq = FALSE,
                              !.pending = {}]
    /\ UNCHANGED serverVars
    /\ UNCHANGED gs

\* TickScheduler.stop: the awaited task has ended, stop() returns.
StopReturn ==
    /\ sched.cpu = "idle"
    /\ sched.stop = "waiting"
    /\ sched.task \in {"done", "cancelled"}
    /\ sched' = [sched EXCEPT !.stop = "returned"]
    /\ phase' = "stopped"
    /\ out' = NoOut
    /\ UNCHANGED <<dbTables, savedTables, nextSaveId, tables, nextTableId, users,
                   userStates, gs>>

NextSched ==
    \/ SchedStart
    \/ TickBegin
    \/ \E id \in DOMAIN tables : \E raises \in BOOLEAN : TickTable(id, raises)
    \/ TickEnd
    \/ TickWake
    \/ \E u \in Users : \E leave \in BOOLEAN : HandleEvent(u, leave)
    \/ \E u \in Users : HandleCleanup(u)
    \/ StopBegin
    \/ TaskCancelled
    \/ StopReturn

SpecSched == InitSched /\ [][NextSched]_vars

(***************************************************************************)
(* Properties of the scheduler and the event loop.                         *)
(***************************************************************************)
\* C2: when the tick callback ends, every table that was there when it began
\* has had its game's on_tick called in this tick, whether or not another
\* table's on_tick raised, and the scheduler's task goes on to its sleep: it
\* neither ends nor crashes.
C2_TickIsolatesTables ==
    [][(sched.task = "in_callback" /\ sched'.task # "in_callback")
          => /\ sched'.task = "sleeping"
             /\ sched.ticked \cup sched.raised = sched.live
             /\ ~sched.escaped]_vars

C2_Witness ==
    /\ sched.task = "sleeping"
    /\ sched.raised # {}
    /\ sched.ticked # {}
    /\ Min(sched.raised) < Min(sched.ticked)

\* C3: stop() begins, and the cancellation takes effect, only while the task is
\* not inside the tick callback; once stop() has returned the task has ended
\* and the callback does not begin again.
C3_StopNeverInterruptsTick ==
    /\ [][((sched.stop = "no" /\ sched'.stop # "no")
            \/ (sched.task # "cancelled" /\ sched'.task = "cancelled"))
          => sched.task # "in_callback"]_vars
    /\ [](sched.stop = "returned" => sched.task \in {"none", "done", "cancelled"})
    /\ [][sched.stop = "returned"
          => (sched'.task = sched.task /\ sched'.ticks = sched.ticks
              /\ sched'.ticked = sched.ticked /\ sched'.raised = sched.raised)]_vars

C3_Witness ==
    /\ sched.stop = "returned"
    /\ sched.task = "cancelled"
    /\ sched.ticks >= 1

\* C4: while a handler is between handle_event and its membership cleanup
\* the tick callback is not in progress and no other handler is between the
\* two either: each runs to completion before the other begins.
C4_EventAndTickDoNotInterleave ==
    /\ Cardinality(sched.handling) <= 1
    /\ sched.handling # {} => sched.task # "in_callback"

C4_Witness ==
    /\ sched.handling = {"bob"}
    /\ sched.task = "sleeping"
    /\ find_user_table(tables, "bob") \in sched.ticked
    /\ ~get_player_by_name(tables[find_user_table(tables, "bob")].game, "bob")
    /\ "alice" \notin MemberNames(tables[find_user_table(tables, "bob")])

(***************************************************************************)
(* SpecGame: one game with a round timer, played, persisted and            *)
(* rehydrated.  gs holds                                                   *)
(*   game     the live game object                                         *)
(*   blob     what to_json last wrote (NoJson before the first save)       *)
(*   orig     the game as it was when the blob was written                 *)
(*   fresh    the game object is as rehydration just made it               *)
(*   track    of the last rehydration: whether the blob was mid-countdown, *)
(*            the remaining ticks and the race it held, and the ticks the  *)
(*            game has since been given while its timer was counting       *)
(*   log      of the round timer's last start: whether there was one, and  *)
(*            how often the timer-ready callback has been invoked since;   *)
(*            rolled back with the game when it is rehydrated              *)
(***************************************************************************)
NoTrack == [on |-> FALSE, remaining |-> 0, counted |-> 0, race0 |-> 0]

NoLog == [started |-> FALSE, calls |-> 0]

\* The log after a step of the game from g to h: a start of the timer opens a
\* new log, each race the timer-ready callback started is counted.
log_step(log, g, h) ==
    IF ~timer_is_active(g) /\ timer_is_active(h) THEN [started |-> TRUE, calls |-> 0]
    ELSE [log EXCEPT !.calls = @ + (h.current_race - g.current_race)]

GamePlayers == {<<"alice", "bob">>, <<"alice", "bot", "bob">>}

InitGame ==
    /\ phase = "running"
    /\ dbTables = <<>>
    /\ savedTables = {}
    /\ nextSaveId = 1
    /\ tables = <<>>
    /\ nextTableId = 1
    /\ users = {}
    /\ userStates = [u \in Users |-> NoState]
    /\ out = NoOut
    /\ sched = SchedIdle
    /\ \E ps \in GamePlayers :
          gs = [tag |-> "live", game |-> [NewGame("alice") EXCEPT !.players = ps],
                blob |-> NoJson, orig |-> NoGame, fresh |-> FALSE,
                track |-> NoTrack, log |-> NoLog, savedLog |-> NoLog]

\* Game.finish_game
finish_game(g) == [g EXCEPT !.status = "finished", !.game_active = FALSE]

\* Game.advance_turn
advance_turn(g) == [g EXCEPT !.turn_index = (@ + 1) % Len(g.players)]

\* MileByMileGame._end_race: the game is won, or the next race starts after
\* the round timer's delay.
end_race(g, won) == IF won THEN finish_game(g) ELSE timer_start(g)

\* The ticks given to the game while it counts down from a rehydrated timer.
count_tick(track, g) ==
    IF /\ track.on
       /\ g.current_race = track.race0
       /\ g.game_active
       /\ g.round_timer_state = "counting"
    THEN [track EXCEPT !.counted = @ + 1]
    ELSE track

\* The host starts the game.
GStart ==
    /\ gs.game.status = "waiting"
    /\ Len(gs.game.players) >= MinPlayers
    /\ gs' = [gs EXCEPT !.game = on_start(@), !.fresh = FALSE]
    /\ UNCHANGED serverVars
    /\ UNCHANGED sched

\* MileByMileGame._end_turn: nothing during the countdown; the race ends, or
\* the turn passes on.
GEndTurn(raceOver, won) ==
    /\ gs.game.status = "playing"
    /\ raceOver => (won \/ gs.game.current_race < MaxRaces)
    /\ gs' = [gs EXCEPT
          !.game = IF timer_is_active(@) THEN @
                   ELSE IF raceOver THEN end_race(@, won)
                   ELSE advance_turn(@),
          !.log = IF ~timer_is_active(gs.game) /\ raceOver
                  THEN log_step(@, gs.game, end_race(gs.game, won)) ELSE @,
          !.fresh = FALSE]
    /\ UNCHANGED serverVars
    /\ UNCHANGED sched

\* ScopaGame._action_pause_timer: the host pauses or resumes the countdown.
GTogglePause(player) ==
    /\ gs.game.status = "playing"
    /\ gs' = [gs EXCEPT
          !.game = IF player = @.host THEN timer_toggle_pause(@) ELSE @,
          !.fresh = FALSE]
    /\ UNCHANGED serverVars
    /\ UNCHANGED sched

\* MileByMileGame.on_tick / ScopaGame.on_tick
GTick ==
    /\ gs.game.status # "waiting"
    /\ gs' = [gs EXCEPT !.game = game_on_tick(@),
                        !.track = count_tick(@, gs.game),
                        !.log = log_step(@, gs.game, game_on_tick(gs.game)),
                        !.fresh = FALSE]
    /\ UNCHANGED serverVars
    /\ UNCHANGED sched

\* Table/TableManager save: the game is written with to_json; it goes on living.
GPersist ==
    /\ gs.game.status # "waiting"
    /\ gs' = [gs EXCEPT !.blob = to_json(gs.game), !.orig = gs.game,
                        !.savedLog = gs.log, !.fresh = FALSE]
    /\ UNCHANGED serverVars
    /\ UNCHANGED sched

\* Rehydration (Server._load_tables lines 124-125): the live object is replaced
\* by from_json of the blob, rebuilt.
GRehydrate ==
    /\ gs.blob # NoJson
    /\ gs' = [gs EXCEPT
          !.game = restore_game(gs.blob),
          !.fresh = TRUE,
          !.log = gs.savedLog,
          !.track = [on |-> gs.blob.round_timer_state # "idle",
                     remaining |-> gs.blob.round_timer_ticks,
                     counted |-> 0,
                     race0 |-> gs.blob.current_race]]
    /\ UNCHANGED serverVars
    /\ UNCHANGED sched

NextGame ==
    \/ GStart
    \/ \E raceOver \in BOOLEAN : \E won \in BOOLEAN : GEndTurn(raceOver, won)
    \/ \E player \in {"alice", "bob"} : GTogglePause(player)
    \/ GTick
    \/ GPersist
    \/ GRehydrate

SpecGame == InitGame /\ [][NextGame]_vars

C10_CountdownResumes ==
    (gs.tag = "live" /\ gs.track.on) =>
        /\ gs.fresh => /\ gs.game.round_timer_state = gs.blob.round_timer_state
                       /\ gs.game.round_timer_ticks = gs.blob.round_timer_ticks
        /\ IF gs.game.current_race = gs.track.race0
           THEN /\ timer_is_active(gs.game)
                /\ gs.track.counted < gs.track.remaining
                /\ gs.game.round_timer_ticks = gs.track.remaining - gs.track.counted
           ELSE /\ gs.game.current_race > gs.track.race0
                /\ gs.track.counted = gs.track.remaining

C10_Witness ==
    /\ gs.tag = "live"
    /\ gs.track.on
    /\ gs.blob.round_timer_state = "paused"
    /\ gs.track.remaining = 2
    /\ gs.track.counted = 2
    /\ gs.game.current_race = gs.track.race0 + 1
    /\ gs.game.round_timer_state = "idle"

\* C11: after the round timer is started the timer-ready callback is invoked
\* once and no more: not while the timer is counting or paused with ticks
\* left, once by the time the timer is idle again; the step that invokes it is
\* a tick on which the timer was counting with one tick remaining, and leaves
\* the timer idle.
C11_TimerReadyExactlyOnce ==
    /\ [](gs.tag = "live" =>
            /\ gs.log.calls <= 1
            /\ (gs.log.started /\ timer_is_active(gs.game)) => gs.log.calls = 0
            /\ (gs.log.started /\ ~timer_is_active(gs.game)) => gs.log.calls = 1)
    /\ [][(gs.tag = "live" /\ ~gs'.fresh /\ gs.game.status = "playing"
           /\ gs'.game.current_race # gs.game.current_race)
          => /\ gs.game.round_timer_state = "counting"
             /\ gs.game.round_timer_ticks = 1
             /\ gs'.game.round_timer_state = "idle"
             /\ gs'.game.current_race = gs.game.current_race + 1]_vars

C11_Witness ==
    /\ gs.tag = "live"
    /\ gs.log.started
    /\ gs.log.calls = 1
    /\ gs.game.round_timer_state = "idle"
    /\ gs.game.current_race = 2
    /\ ~gs.track.on

(***************************************************************************)
(* SpecScopa: a game of Scopa.  Cards are counted, not told apart: hands,  *)
(* deck and table hold numbers of cards; what a played card captures and   *)
(* the points the round's scoring awards are inputs.  gs.game holds the    *)
(* ScopaGame's fields; scores are the teams' total scores (one player a    *)
(* team), instant_win the instant_win_scopas option.                       *)
(***************************************************************************)
ScopaPlayers == {<<"alice", "bob">>, <<"alice", "bob", "bot">>}

NewScopa(ps, instant) ==
    [tag |-> "scopa", status |-> "waiting", game_active |-> FALSE,
     players |-> ps, host |-> ps[1], turn_index |-> 0, dealer_index |-> 0,
     current_round |-> 0, hands |-> [i \in 1..Len(ps) |-> 0], deck |-> 0,
     table_cards |-> 0, last_capture_player |-> "",
     scores |-> [i \in 1..Len(ps) |-> 0], instant_win |-> instant,
     round_timer_state |-> "idle", round_timer_ticks |-> 0]

InitScopa ==
    /\ phase = "running"
    /\ dbTables = <<>>
    /\ savedTables = {}
    /\ nextSaveId = 1
    /\ tables = <<>>
    /\ nextTableId = 1
    /\ users = {}
    /\ userStates = [u \in Users |-> NoState]
    /\ out = NoOut
    /\ sched = SchedIdle
    /\ \E ps \in ScopaPlayers : \E instant \in BOOLEAN :
          gs = [tag |-> "scopa", game |-> NewScopa(ps, instant)]

\* scoring.check_winner: a team has reached the target score.
scopa_check_winner(g) == \E i \in 1..Len(g.players) : g.scores[i] >= ScopaTarget

\* scoring.declare_winner
scopa_declare_winner(g) == finish_game(g)

\* ScopaGame.on_start
scopa_on_start(g) ==
    scopa_start_round([g EXCEPT !.status = "playing", !.game_active = TRUE,
                                !.current_round = 0,
                                !.scores = [i \in 1..Len(g.players) |-> 0]])

\* ScopaGame._end_round: the table's cards go to the last capturer, the round
\* is scored (bonus: the player the scoring awards a point, 0 for none), and
\* the game is won or the round timer starts.
scopa_end_round(g, bonus) ==
    LET g1 == IF g.table_cards > 0 /\ g.last_capture_player # ""
              THEN [g EXCEPT !.table_cards = 0] ELSE g
        g2 == [g1 EXCEPT !.scores = [i \in 1..Len(g.players) |->
                            IF i = bonus THEN @[i] + 1 ELSE @[i]]]
    IN IF scopa_check_winner(g2) THEN scopa_declare_winner(g2) ELSE timer_start(g2)

\* ScopaGame._end_turn
scopa_end_turn(g, bonus) ==
    IF \A i \in 1..Len(g.players) : g.hands[i] = 0
    THEN IF g.deck = 0 THEN scopa_end_round(g, bonus) ELSE scopa_deal_cards(g)
    ELSE advance_turn(g)

\* ScopaGame._execute_capture: the captured cards leave the table; clearing
\* the table is a scopa, a point, and with instant_win_scopas a win at the
\* target score.
scopa_execute_capture(g, p, all) ==
    LET g1 == [g EXCEPT !.table_cards = IF all THEN 0 ELSE @ - 1,
                        !.last_capture_player = g.players[p]]
        g2 == IF g1.table_cards = 0 THEN [g1 EXCEPT !.scores[p] = @ + 1] ELSE g1
    IN IF g1.table_cards = 0 /\ g.instant_win /\ g2.scores[p] >= ScopaTarget
       THEN scopa_declare_winner(g2) ELSE g2

\* ScopaGame._play_card: the card leaves the hand, captures or is put down,
\* then _end_turn.
scopa_play_card(g, p, capture, bonus) ==
    LET g1 == [g EXCEPT !.hands[p] = @ - 1]
        g2 == IF capture = "none" THEN [g1 EXCEPT !.table_cards = @ + 1]
              ELSE scopa_execute_capture(g1, p, capture = "all")
    IN scopa_end_turn(g2, bonus)

\* The host starts the game.
ScopaStart ==
    /\ gs.game.status = "waiting"
    /\ gs' = [gs EXCEPT !.game = scopa_on_start(@)]
    /\ UNCHANGED serverVars
    /\ UNCHANGED sched

\* ScopaGame._action_play_card by the player whose play_card actions are in the
\* turn set (update_turn_actions: the current player, while playing).
ScopaPlay(capture, bonus) ==
    /\ gs.game.status = "playing"
    /\ gs.game.hands[gs.game.turn_index + 1] > 0
    /\ capture = "some" => gs.game.table_cards >= 2
    /\ capture = "all" => gs.game.table_cards >= 1
    /\ bonus <= Len(gs.game.players)
    /\ gs' = [gs EXCEPT !.game = scopa_play_card(@, @.turn_index + 1, capture, bonus)]
    /\ UNCHANGED serverVars
    /\ UNCHANGED sched

\* ScopaGame._action_pause_timer
ScopaPause(player) ==
    /\ gs.game.status # "waiting"
    /\ gs' = [gs EXCEPT !.game = IF player = @.host /\ timer_is_active(@)
                                 THEN timer_toggle_pause(@) ELSE @]
    /\ UNCHANGED serverVars
    /\ UNCHANGED sched

\* ScopaGame.on_tick
ScopaTick ==
    /\ gs.game.status # "waiting"
    /\ gs.game.current_round < MaxScopaRounds
          \/ gs.game.round_timer_state # "counting"
          \/ gs.game.round_timer_ticks > 1
    /\ gs' = [gs EXCEPT !.game = IF ~@.game_active THEN @ ELSE timer_on_tick(@)]
    /\ UNCHANGED serverVars
    /\ UNCHANGED sched

NextScopa ==
    \/ ScopaStart
    \/ \E capture \in {"none", "some", "all"} : \E bonus \in 0..3 :
          ScopaPlay(capture, bonus)
    \/ \E player \in {"alice", "bob"} : ScopaPause(player)
    \/ ScopaTick

SpecScopa == InitScopa /\ [][NextScopa]_vars

\* C12: the status moves only from waiting to playing and from playing to
\* finished; a finished game never changes again; and the step that finishes
\* the game leaves the turn with the player who played, deals no cards, starts
\* no round and no round timer.
C12_FinishedIsTerminal ==
    /\ [][gs'.game.status # gs.game.status =>
             \/ (gs.game.status = "waiting" /\ gs'.game.status = "playing")
             \/ (gs.game.status = "playing" /\ gs'.game.status = "finished")]_vars
    /\ [][gs.game.status = "finished" => gs'.game = gs.game]_vars
    /\ [][(gs.game.status = "playing" /\ gs'.game.status = "finished") =>
             /\ gs'.game.turn_index = gs.game.turn_index
             /\ gs'.game.current_round = gs.game.current_round
             /\ gs'.game.deck = gs.game.deck
             /\ \A i \in 1..Len(gs.game.players) : gs'.game.hands[i] <= gs.game.hands[i]
             /\ gs'.game.round_timer_state = "idle"]_vars

(***************************************************************************)
(* SpecUno: a game of UNO.  gs.game holds the UnoGame's fields, the hands  *)
(* by player id, and the turn order of the base Game: turn_player_ids,     *)
(* turn_index, turn_direction and the pending skips.  Instrumentation,     *)
(* reset when a handler begins: said, the explanation spoken to a user;    *)
(* bot_sync, a bot's action ran inside the handler.                        *)
(***************************************************************************)
UNO_COLORS == <<"red", "yellow", "green", "blue">>

WILD == "wild"
WILD_DRAW_FOUR == "wild_draw4"

UnoCard(color, value) == [color |-> color, value |-> value]

\* UnoCard.is_wild
is_wild(card) == card.value \in {WILD, WILD_DRAW_FOUR}

\* The kinds of card the model's decks are made of.
UnoKinds ==
    <<UnoCard("red", "1"), UnoCard("red", "skip"), UnoCard("blue", "2"),
      UnoCard("red", "reverse"), UnoCard("wild", WILD), UnoCard("red", "draw2"),
      UnoCard("wild", WILD_DRAW_FOUR)>>

\* n cards in a row of the kinds, from the k-th on.
UnoRun(k, n) == [i \in 1..n |-> UnoKinds[((k + i - 2) % Len(UnoKinds)) + 1]]

UnoPlayer(name, bot, spectator) ==
    [name |-> name, is_bot |-> bot, is_spectator |-> spectator]

UnoSeatings ==
    {<<UnoPlayer("alice", FALSE, FALSE), UnoPlayer("bob", FALSE, FALSE)>>,
     <<UnoPlayer("alice", FALSE, FALSE), UnoPlayer("eve", FALSE, TRUE),
       UnoPlayer("bob", FALSE, FALSE), UnoPlayer("carol", FALSE, FALSE)>>,
     <<UnoPlayer("alice", FALSE, FALSE), UnoPlayer("bot", TRUE, FALSE),
       UnoPlayer("bob", FALSE, FALSE)>>}

UnoNames(ps) == {ps[i].name : i \in 1..Len(ps)}

NoSaid == [user |-> "", msg |-> ""]

NewUno(ps) ==
    [tag |-> "uno", status |-> "waiting", game_active |-> FALSE,
     players |-> ps, host |-> ps[1].name,
     hands |-> [n \in UnoNames(ps) |-> <<>>],
     turn_player_ids |-> <<>>, turn_index |-> 0, turn_direction |-> 1,
     turn_skip_count |-> 0,
     deck |-> <<>>, discard_pile |-> <<>>, current_color |-> "",
     current_value |-> "", pending_draw_amount |-> 0,
     pending_draw_target_id |-> "", pending_color_player_id |-> "",
     pending_color_value |-> "", said |-> NoSaid, bot_sync |-> FALSE]

\* Game.get_active_players: the players who are not spectators, in order.
RECURSIVE active_ids(_)
active_ids(ps) ==
    IF ps = <<>> THEN <<>>
    ELSE IF Head(ps).is_spectator THEN active_ids(Tail(ps))
    ELSE <<Head(ps).name>> \o active_ids(Tail(ps))

uno_player(g, id) == CHOOSE q \in Range(g.players) : q.name = id

\* Game.current_player
current_player(g) ==
    IF g.turn_player_ids = <<>> THEN "" ELSE g.turn_player_ids[g.turn_index + 1]

\* Game.skip_next_players: the skip count the next advance is given.
skip_next_players(g, n) == [g EXCEPT !.turn_skip_count = n]

\* Game.reverse_turn_direction
reverse_turn_direction(g) == [g EXCEPT !.turn_direction = -@]

\* A plausible bug: the pending skips are dropped by the advance.
turn_advance_no_skip(g) ==
    [g EXCEPT !.turn_index = (@ + g.turn_direction) % Len(g.turn_player_ids),
              !.turn_skip_count = 0]

\* Game.advance_turn with a direction: the index moves by direction times one
\* more than the pending skips, modulo the length of the turn order.
turn_advance(g) ==
    [g EXCEPT !.turn_index = (@ + g.turn_direction * (1 + g.turn_skip_count))
                                % Len(g.turn_player_ids),
              !.turn_skip_count = 0]

\* UnoGame._get_next_player_id
get_next_player_id(g) ==
    IF g.turn_player_ids = <<>> THEN ""
    ELSE g.turn_player_ids[((g.turn_index + g.turn_direction)
                               % Len(g.turn_player_ids)) + 1]

\* UnoGame._refill_deck: the discard pile but its top becomes the deck (of the
\* orders random.shuffle may leave it in, the pile's).
refill_deck(g) ==
    IF Len(g.discard_pile) <= 1 THEN g
    ELSE [g EXCEPT !.deck = SubSeq(g.discard_pile, 1, Len(g.discard_pile) - 1),
                   !.discard_pile = <<g.discard_pile[Len(g.discard_pile)]>>]

\* UnoGame._draw_cards: up to count cards from the end of the deck, refilled
\* when empty, to the end of the hand.
RECURSIVE draw_cards(_, _, _)
draw_cards(g, id, count) ==
    IF count = 0 THEN g
    ELSE LET g1 == IF g.deck = <<>> THEN refill_deck(g) ELSE g
         IN IF g1.deck = <<>> THEN g1
            ELSE draw_cards(
                    [g1 EXCEPT !.hands[id] = Append(@, g1.deck[Len(g1.deck)]),
                               !.deck = SubSeq(@, 1, Len(@) - 1)],
                    id, count - 1)

\* UnoGame._can_play_card
can_play_card(g, card) ==
    IF g.pending_color_player_id # "" THEN FALSE
    ELSE IF g.discard_pile = <<>> THEN TRUE
    ELSE IF is_wild(card) THEN TRUE
    ELSE IF card.color = g.current_color THEN TRUE
    ELSE g.current_value \notin {WILD, WILD_DRAW_FOUR} /\ card.value = g.current_value

\* UnoGame._bot_choose_color's choice: the commonest of UNO_COLORS in the hand,
\* the first of them on a tie, red for a hand with none.
bot_color(hand) ==
    LET n(c) == Cardinality({i \in 1..Len(hand) : hand[i].color = c})
        best == CHOOSE i \in 1..Len(UNO_COLORS) :
                  /\ \A j \in 1..Len(UNO_COLORS) : n(UNO_COLORS[j]) <= n(UNO_COLORS[i])
                  /\ \A j \in 1..(i - 1) : n(UNO_COLORS[j]) < n(UNO_COLORS[i])
    IN IF \A i \in 1..Len(UNO_COLORS) : n(UNO_COLORS[i]) = 0 THEN "red"
       ELSE UNO_COLORS[best]

\* UnoGame._apply_card_effect
apply_card_effect(g, card) ==
    IF card.value = "skip" THEN skip_next_players(g, 1)
    ELSE IF card.value = "reverse"
         THEN LET g1 == reverse_turn_direction(g)
              IN IF Len(g1.turn_player_ids) = 2 THEN skip_next_players(g1, 1) ELSE g1
    ELSE IF card.value = "draw2" /\ get_next_player_id(g) # ""
         THEN [g EXCEPT !.pending_draw_target_id = get_next_player_id(g),
                        !.pending_draw_amount = 2]
    ELSE g

RECURSIVE uno_start_turn(_)
RECURSIVE uno_end_turn(_)
RECURSIVE uno_bot_take_turn(_, _)
RECURSIVE uno_play_card(_, _, _)
RECURSIVE uno_choose_color(_, _, _)

\* A plausible bug: _action_choose_color without the check of who is asked.
uno_choose_color_by_anyone(g, id, color) ==
    IF g.pending_color_player_id = "" THEN g
    ELSE IF color \notin Range(UNO_COLORS) THEN g
    ELSE LET value == IF g.pending_color_value # "" THEN g.pending_color_value ELSE WILD
             g1 == [g EXCEPT !.current_color = color, !.current_value = value,
                             !.pending_color_player_id = "",
                             !.pending_color_value = ""]
             g2 == IF value = WILD_DRAW_FOUR /\ get_next_player_id(g1) # ""
                   THEN [g1 EXCEPT !.pending_draw_target_id = get_next_player_id(g1),
                                   !.pending_draw_amount = 4]
                   ELSE g1
         IN uno_end_turn(g2)

\* UnoGame._action_choose_color
uno_choose_color(g, id, color) ==
    IF id # g.pending_color_player_id THEN g
    ELSE IF color \notin Range(UNO_COLORS) THEN g
    ELSE LET value == IF g.pending_color_value # "" THEN g.pending_color_value ELSE WILD
             g1 == [g EXCEPT !.current_color = color, !.current_value = value,
                             !.pending_color_player_id = "",
                             !.pending_color_value = ""]
             g2 == IF value = WILD_DRAW_FOUR /\ get_next_player_id(g1) # ""
                   THEN [g1 EXCEPT !.pending_draw_target_id = get_next_player_id(g1),
                                   !.pending_draw_amount = 4]
                   ELSE g1
         IN uno_end_turn(g2)

\* UnoGame._play_card followed by _after_card_play: the card goes on the discard
\* pile; a wild waits for its colour (a bot chooses at once); any other card
\* has its effect, wins the game with the last card of the hand, or ends the turn.
uno_play_card(g, id, card) ==
    LET g1 == [g EXCEPT !.discard_pile = Append(@, card),
                        !.current_value = card.value,
                        !.current_color = IF is_wild(card) THEN @ ELSE card.color]
    IN IF is_wild(card)
       THEN LET g2 == [g1 EXCEPT !.pending_color_player_id = id,
                                 !.pending_color_value = card.value]
            IN IF uno_player(g, id).is_bot
               THEN uno_choose_color(g2, id, bot_color(g2.hands[id]))
               ELSE g2
       ELSE LET g2 == apply_card_effect(g1, card)
            IN IF Len(g2.hands[id]) = 0 THEN finish_game(g2)
               ELSE uno_end_turn(g2)

\* UnoGame._bot_take_turn: the first playable card of the hand, else one card
\* drawn and played when playable, else the turn ends.
uno_bot_take_turn(g, id) ==
    LET g0 == [g EXCEPT !.bot_sync = TRUE]
        hand == g0.hands[id]
        playable == {i \in 1..Len(hand) : can_play_card(g0, hand[i])}
    IN IF playable # {}
       THEN LET idx == Min(playable)
            IN uno_play_card([g0 EXCEPT !.hands[id] = pop_at(hand, idx)],
                             id, hand[idx])
       ELSE LET g1 == draw_cards(g0, id, 1)
                h1 == g1.hands[id]
            IN IF Len(h1) > Len(hand) /\ can_play_card(g1, h1[Len(h1)])
               THEN uno_play_card([g1 EXCEPT !.hands[id] = hand], id, h1[Len(h1)])
               ELSE uno_end_turn(g1)

\* UnoGame._start_turn
uno_start_turn(g) ==
    LET id == current_player(g)
    IN IF id = "" \/ g.status # "playing" THEN g
       ELSE IF g.pending_draw_target_id = id /\ g.pending_draw_amount > 0
       THEN LET g1 == draw_cards([g EXCEPT !.pending_draw_amount = 0,
                                           !.pending_draw_target_id = ""],
                                 id, g.pending_draw_amount)
            IN IF uno_player(g, id).is_bot THEN uno_bot_take_turn(g1, id) ELSE g1
       ELSE IF g.pending_color_player_id = id /\ uno_player(g, id).is_bot
       THEN [uno_choose_color(g, id, bot_color(g.hands[id])) EXCEPT !.bot_sync = TRUE]
       ELSE IF uno_player(g, id).is_bot THEN uno_bot_take_turn(g, id)
       ELSE g

\* UnoGame._end_turn
uno_end_turn(g) == uno_start_turn(turn_advance(g))

\* UnoGame._flip_start_card: the first card from the end of the deck that is not
\* a wild draw four opens the discard pile, with its effect; color is what
\* random.choice gives for a wild.
RECURSIVE flip_start_card(_, _, _)
flip_start_card(g, color, fuel) ==
    IF g.deck = <<>> \/ fuel = 0 THEN g
    ELSE LET card == g.deck[Len(g.deck)]
             rest == SubSeq(g.deck, 1, Len(g.deck) - 1)
         IN IF card.value = WILD_DRAW_FOUR
            THEN flip_start_card([g EXCEPT !.deck = <<card>> \o rest], color, fuel - 1)
            ELSE LET g1 == [g EXCEPT !.deck = rest,
                                     !.discard_pile = Append(@, card),
                                     !.current_value = card.value,
                                     !.current_color =
                                         IF is_wild(card) THEN color ELSE card.color]
                 IN IF card.value = "skip" THEN skip_next_players(g1, 1)
                    ELSE IF card.value = "reverse" THEN reverse_turn_direction(g1)
                    ELSE IF card.value = "draw2" /\ get_next_player_id(g1) # ""
                         THEN [g1 EXCEPT !.pending_draw_target_id = get_next_player_id(g1),
                                         !.pending_draw_amount = 2]
                    ELSE g1

\* The deal of starting_cards cards to each player of ids in turn.
RECURSIVE uno_deal(_, _, _)
uno_deal(g, ids, n) ==
    IF ids = <<>> THEN g ELSE uno_deal(draw_cards(g, Head(ids), n), Tail(ids), n)

\* UnoGame.on_start, with the deck as random.shuffle left it
uno_on_start(g, deck, color) ==
    LET g1 == [g EXCEPT !.status = "playing", !.game_active = TRUE,
                        !.turn_player_ids = active_ids(g.players),
                        !.turn_index = 0, !.turn_direction = 1,
                        !.turn_skip_count = 0, !.deck = deck]
        g2 == uno_deal(g1, g1.turn_player_ids, UnoStartingCards)
    IN uno_start_turn(flip_start_card(g2, color, Len(deck)))

\* Where the runs dealt as hands and left as the deck start.
UnoRunStarts == {k \in 1..Len(UnoKinds) : k % 2 = 1}

RECURSIVE Reverse(_)
Reverse(s) == IF s = <<>> THEN <<>> ELSE Reverse(Tail(s)) \o <<Head(s)>>

\* The shuffled decks of the model: runs of the kinds, one for each hand, one
\* card to open the discard pile, and the cards left to draw.
RECURSIVE UnoDecks(_)
UnoDecks(n) ==
    IF n = 0
    THEN {UnoRun(k, UnoSpareCards) \o UnoRun(t, 1) :
            k \in UnoRunStarts, t \in 1..Len(UnoKinds)}
    ELSE {d \o Reverse(UnoRun(k, UnoStartingCards)) :
            d \in UnoDecks(n - 1), k \in UnoRunStarts}

NoEvent == [by |-> "", kind |-> "", current |-> ""]

InitUno ==
    /\ phase = "running"
    /\ dbTables = <<>>
    /\ savedTables = {}
    /\ nextSaveId = 1
    /\ tables = <<>>
    /\ nextTableId = 1
    /\ users = {}
    /\ userStates = [u \in Users |-> NoState]
    /\ out = NoOut
    /\ sched = SchedIdle
    /\ \E ps \in UnoSeatings, color \in {"red", "blue"} :
         \E deck \in UnoDecks(Len(active_ids(ps))) :
            gs = [tag |-> "uno", game |-> uno_on_start(NewUno(ps), deck, color),
                  moves |-> 0, ev |-> NoEvent]

\* A plausible bug: _action_play_card without the check of whose turn it is.
uno_action_play_card_any_turn(g, id, n) ==
    LET index == n - 1
        hand == g.hands[id]
    IN IF g.status # "playing" THEN g
       ELSE IF g.pending_color_player_id # "" THEN g
       ELSE IF index < 0 THEN g
       ELSE IF index >= Len(hand) THEN g
       ELSE IF ~can_play_card(g, hand[index + 1])
            THEN IF uno_player(g, id).is_bot THEN g
                 ELSE [g EXCEPT !.said = [user |-> id, msg |-> "uno-invalid-play"]]
       ELSE uno_play_card([g EXCEPT !.hands[id] = pop_at(hand, index + 1)],
                          id, hand[index + 1])

\* UnoGame._action_play_card, for the action id play_<n>
uno_action_play_card(g, id, n) ==
    LET index == n - 1
        hand == g.hands[id]
    IN IF g.status # "playing" \/ id # current_player(g) THEN g
       ELSE IF g.pending_color_player_id # "" THEN g
       ELSE IF index < 0 THEN g
       ELSE IF index >= Len(hand) THEN g
       ELSE IF ~can_play_card(g, hand[index + 1])
            THEN IF uno_player(g, id).is_bot THEN g
                 ELSE [g EXCEPT !.said = [user |-> id, msg |-> "uno-invalid-play"]]
       ELSE uno_play_card([g EXCEPT !.hands[id] = pop_at(hand, index + 1)],
                          id, hand[index + 1])

\* UnoGame._action_draw_card
uno_action_draw_card(g, id) ==
    IF g.status # "playing" \/ id # current_player(g) THEN g
    ELSE IF g.pending_color_player_id # "" THEN g
    ELSE LET g1 == draw_cards(g, id, 1)
             h1 == g1.hands[id]
         IN IF Len(h1) > Len(g.hands[id]) /\ can_play_card(g1, h1[Len(h1)])
            THEN uno_play_card([g1 EXCEPT !.hands[id] = g.hands[id]], id, h1[Len(h1)])
            ELSE uno_end_turn(g1)

\* What a handler is given: the game with the instrumentation reset.
uno_called(g) == [g EXCEPT !.said = NoSaid, !.bot_sync = FALSE]

\* A handler called for player id: gs.ev tells whose event of what kind it was
\* and whose turn it was; gs.moves counts the calls that changed the game.
UnoHandle(id, kind, g1) ==
    /\ gs.tag = "uno"
    /\ gs.moves < MaxUnoMoves
    /\ gs' = [gs EXCEPT !.game = g1,
                        !.ev = [by |-> id, kind |-> kind,
                                current |-> current_player(gs.game)],
                        !.moves = IF uno_called(g1) = uno_called(gs.game)
                                  THEN @ ELSE @ + 1]
    /\ UNCHANGED <<serverVars, sched>>

UnoPlay(id, n) ==
    UnoHandle(id, "play", uno_action_play_card(uno_called(gs.game), id, n))

UnoDraw(id) == UnoHandle(id, "draw", uno_action_draw_card(uno_called(gs.game), id))

UnoChooseColor(id, color) ==
    UnoHandle(id, "color", uno_choose_color(uno_called(gs.game), id, color))

NextUno ==
    \/ \E id \in UnoNames(gs.game.players), n \in 0..(UnoStartingCards + 1) :
          UnoPlay(id, n)
    \/ \E id \in UnoNames(gs.game.players) : UnoDraw(id)
    \/ \E id \in UnoNames(gs.game.players), color \in {"red", "blue", "purple"} :
          UnoChooseColor(id, color)

SpecUno == InitUno /\ [][NextUno]_vars

MileSeatings == {<<"alice", "bob">>, <<"alice", "bot">>}

NewMile(ps, perfect, reshuffle, shuffled) ==
    [tag |-> "mile", status |-> "waiting", game_active |-> FALSE,
     players |-> ps, host |-> ps[1], turn_index |-> 0, current_race |-> 0,
     race_winner_team_index |-> -1,
     hands |-> [id \in Range(ps) |-> <<>>],
     teams |-> [id \in Range(ps) |->
                  [miles |-> 0, problems |-> {"stop"}, safeties |-> {},
                   has_karma |-> TRUE]],
     dirty_trick_window_team |-> "", dirty_trick_window_hazard |-> "",
     dirty_trick_window_ticks |-> 0,
     karma_rule |-> FALSE, allow_stacking_attacks |-> FALSE,
     scores |-> [id \in Range(ps) |-> 0],
     deck |-> <<>>, discard_pile |-> <<>>, protections_pile |-> <<>>,
     round_timer_state |-> "idle", round_timer_ticks |-> 0,
     only_allow_perfect_crossing |-> perfect,
     reshuffle_discard_pile |-> reshuffle,
     shuffled |-> shuffled, said |-> NoSaid]

\* MileByMileGame.on_start
mile_on_start(g) ==
    mile_start_race([g EXCEPT !.status = "playing", !.game_active = TRUE,
                              !.current_race = 0])

\* MileByMileGame._end_race: the race is scored (_calculate_race_scores: the
\* miles and the bonus of a completed trip); a team at the winning score ends
\* the game, else the next race starts after the round timer's delay.
mile_end_race(g) ==
    LET done(id) == g.teams[id].miles >= MileRoundDistance
        best == CHOOSE id \in Range(g.players) :
                  \A o \in Range(g.players) : g.teams[o].miles <= g.teams[id].miles
        winner == IF g.race_winner_team_index >= 0
                  THEN g.players[g.race_winner_team_index + 1] ELSE best
        g1 == [g EXCEPT !.scores = [id \in DOMAIN @ |->
                  @[id] + Min({g.teams[id].miles, MileRoundDistance})
                        + (IF id = winner /\ done(id) THEN MileTripBonus ELSE 0)]]
    IN end_race(g1, \E id \in Range(g.players) : g1.scores[id] >= MileWinningScore)

\* MileByMileGame._end_turn
mile_end_turn(g) ==
    IF timer_is_active(g) THEN g
    ELSE IF g.race_winner_team_index >= 0 THEN mile_end_race(g)
    ELSE IF /\ g.deck = <<>> /\ g.discard_pile = <<>>
            /\ ~g.reshuffle_discard_pile
            /\ \A id \in Range(g.players) : g.hands[id] = <<>>
    THEN mile_end_race(g)
    ELSE mile_start_turn(advance_turn(g))

\* MileByMileGame._play_hazard, in individual mode with one opponent: the
\* karma rule, the hazard on the target team, the dirty trick window of
\* DirtyTrickTicks ticks (60 in the code), the end of the turn.  An applied
\* hazard goes to the target's battle pile, which the model does not keep.
mile_play_hazard(g, id, slot, card) ==
    LET targets == get_valid_hazard_targets(g, id, card.value)
    IN IF targets = {}
       THEN [g EXCEPT !.said = [user |-> id, msg |-> "milebymile-no-valid-targets"]]
       ELSE
         LET target == CHOOSE t \in targets : TRUE
             g1 == [g EXCEPT !.hands[id] = pop_at(@, slot + 1)]
             clash == /\ g.karma_rule
                      /\ g.teams[id].has_karma /\ g.teams[target].has_karma
             shunned == /\ g.karma_rule
                        /\ g.teams[id].has_karma /\ ~g.teams[target].has_karma
         IN IF clash
            THEN mile_end_turn([g1 EXCEPT !.teams[id].has_karma = FALSE,
                                          !.teams[target].has_karma = FALSE,
                                          !.discard_pile = Append(@, card)])
            ELSE mile_end_turn(
                   [g1 EXCEPT
                      !.teams[id].has_karma = IF shunned THEN FALSE ELSE @,
                      !.teams[target].problems =
                         @ \cup {card.value} \cup
                           (IF /\ card.value # "speed_limit"
                               /\ "right_of_way" \notin g.teams[target].safeties
                            THEN {"stop"} ELSE {}),
                      !.dirty_trick_window_team = target,
                      !.dirty_trick_window_hazard = card.value,
                      !.dirty_trick_window_ticks = DirtyTrickTicks])

\* MileByMileGame._play_safety: the safety joins the team's safeties and takes
\* its hazard away (Right of Way both Stop and Speed Limit; after a dirty
\* trick a Stop left alone goes too); the card goes to the protections pile,
\* a replacement is drawn and the turn is not ended.
mile_play_safety(g, id, slot, card, is_dirty_trick) ==
    LET cured == {SAFETY_TO_HAZARD(card.value)} \cup
                 (IF card.value = "right_of_way" THEN {"speed_limit", "stop"} ELSE {})
        left == g.teams[id].problems \ cured
        g1 == [g EXCEPT !.hands[id] = pop_at(@, slot + 1),
                        !.teams[id].safeties = @ \cup {card.value},
                        !.teams[id].problems =
                           IF is_dirty_trick /\ left = {"stop"} THEN {} ELSE left,
                        !.protections_pile = Append(@, card)]
    IN mile_draw_card(g1, id)

\* MileByMileGame._play_card: _play_distance, _play_hazard, _play_remedy and
\* _play_safety
mile_play_card(g, id, slot, card) ==
    LET g1 == [g EXCEPT !.hands[id] = pop_at(@, slot + 1),
                        !.discard_pile = Append(@, card)]
    IN IF card.card_type = "hazard" THEN mile_play_hazard(g, id, slot, card)
       ELSE IF card.card_type = "safety"
       THEN mile_play_safety(g, id, slot, card, FALSE)
       ELSE IF card.card_type = "distance"
       THEN LET g2 == [g1 EXCEPT !.teams[id].miles = @ + card.distance]
            IN mile_end_turn(
                 IF g2.teams[id].miles >= MileRoundDistance
                 THEN [g2 EXCEPT !.race_winner_team_index =
                          (CHOOSE i \in 1..Len(g.players) : g.players[i] = id) - 1]
                 ELSE g2)
       ELSE mile_end_turn(
              [g1 EXCEPT !.teams[id].problems =
                  @ \ {IF card.value = "roll" THEN "stop" ELSE "speed_limit"}])

\* A plausible bug: the card is discarded and the turn is not ended.
mile_discard_card_stalls(g, id, slot, card) ==
    IF card.card_type = "safety"
    THEN [g EXCEPT !.hands[id] = pop_at(@, slot + 1),
                   !.protections_pile = Append(@, card)]
    ELSE [g EXCEPT !.hands[id] = pop_at(@, slot + 1),
                   !.discard_pile = Append(@, card)]

\* MileByMileGame._discard_card
mile_discard_card(g, id, slot, card) ==
    mile_end_turn(
        IF card.card_type = "safety"
        THEN [g EXCEPT !.hands[id] = pop_at(@, slot + 1),
                       !.protections_pile = Append(@, card)]
        ELSE [g EXCEPT !.hands[id] = pop_at(@, slot + 1),
                       !.discard_pile = Append(@, card)])

\* MileByMileGame._action_play_card for the action id card_slot_<n>: a card that
\* cannot be played is explained to a human and discarded for a bot.
mile_action_play_card(g, id, n) ==
    LET slot == n - 1
        card == g.hands[id][slot + 1]
    IN IF g.players[g.turn_index + 1] # id THEN g
       ELSE IF slot < 0 \/ slot >= Len(g.hands[id]) THEN g
       ELSE IF mile_can_play_card(g, id, card) THEN mile_play_card(g, id, slot, card)
       ELSE IF id \in Bots THEN mile_discard_card(g, id, slot, card)
       ELSE [g EXCEPT !.said = [user |-> id, msg |-> "milebymile-cant-play"]]

\* A plausible bug: the dirty trick is played with any safety of the hand.
mile_action_dirty_trick_any_safety(g, id) ==
    LET hazard == g.dirty_trick_window_hazard
        found == {i \in 1..Len(g.hands[id]) : g.hands[id][i].card_type = "safety"}
    IN IF g.dirty_trick_window_team # id THEN g
       ELSE IF hazard = "" THEN g
       ELSE IF found = {}
       THEN [g EXCEPT !.said = [user |-> id, msg |-> "milebymile-no-matching-safety"]]
       ELSE [mile_play_safety(g, id, Min(found) - 1, g.hands[id][Min(found)], TRUE)
               EXCEPT !.dirty_trick_window_team = "",
                      !.dirty_trick_window_hazard = "",
                      !.dirty_trick_window_ticks = 0]

\* MileByMileGame._action_dirty_trick
mile_action_dirty_trick(g, id) ==
    LET hazard == g.dirty_trick_window_hazard
        found == {i \in 1..Len(g.hands[id]) :
                    /\ g.hands[id][i].card_type = "safety"
                    /\ g.hands[id][i].value = HAZARD_TO_SAFETY(hazard)}
    IN IF g.dirty_trick_window_team # id THEN g
       ELSE IF hazard = "" THEN g
       ELSE IF found = {}
       THEN [g EXCEPT !.said = [user |-> id, msg |-> "milebymile-no-matching-safety"]]
       ELSE [mile_play_safety(g, id, Min(found) - 1, g.hands[id][Min(found)], TRUE)
               EXCEPT !.dirty_trick_window_team = "",
                      !.dirty_trick_window_hazard = "",
                      !.dirty_trick_window_ticks = 0]

\* MileByMileGame.on_tick: the round timer, then the dirty trick window.
mile_on_tick(g) ==
    IF ~g.game_active THEN g
    ELSE LET g1 == timer_on_tick(g)
         IN IF g1.dirty_trick_window_ticks > 0
            THEN IF g1.dirty_trick_window_ticks - 1 <= 0
                 THEN [g1 EXCEPT !.dirty_trick_window_ticks = 0,
                                 !.dirty_trick_window_team = "",
                                 !.dirty_trick_window_hazard = ""]
                 ELSE [g1 EXCEPT !.dirty_trick_window_ticks = @ - 1]
            ELSE g1

\* The decks as shuffled: a run of the kinds for each hand, and the cards left.
MileDecks ==
    {[i \in 1..(Len(MileKinds) + MileSpareCards) |->
         MileKinds[((i * a + b) % Len(MileKinds)) + 1]] \o
     [i \in 1..(2 * MileHandSize) |-> MileKinds[((i + c) % Len(MileKinds)) + 1]] :
       a \in {1, 3}, b \in 1..Len(MileKinds), c \in 1..Len(MileKinds)}

NoMileEvent == [by |-> "", n |-> 0, current |-> "", legal |-> "none"]

\* What the hazards, remedies and safeties played so far in a race can have
\* left a team with: stopped, rolling, under a speed limit, or holding Right
\* of Way (which keeps Stop and Speed Limit away) after an accident.
MileConditions ==
    {[problems |-> {"stop"}, safeties |-> {}],
     [problems |-> {}, safeties |-> {}],
     [problems |-> {"speed_limit"}, safeties |-> {}],
     [problems |-> {"accident"}, safeties |-> {"right_of_way"}]}

\* The game some turns into a race: the hazards, remedies and safeties played
\* so far have left each team in the condition ps gives it.
InitMile ==
    /\ phase = "running"
    /\ dbTables = <<>>
    /\ savedTables = {}
    /\ nextSaveId = 1
    /\ tables = <<>>
    /\ nextTableId = 1
    /\ users = {}
    /\ userStates = [u \in Users |-> NoState]
    /\ out = NoOut
    /\ sched = SchedIdle
    /\ \E seats \in MileSeatings, perfect \in BOOLEAN, reshuffle \in BOOLEAN,
          deck \in MileDecks :
         \E ps \in [Range(seats) -> MileConditions] :
            gs = [tag |-> "mile",
                  game |-> [mile_on_start(NewMile(seats, perfect, reshuffle, deck))
                              EXCEPT !.teams = [id \in DOMAIN @ |->
                                         [@[id] EXCEPT !.problems = ps[id].problems,
                                                       !.safeties = ps[id].safeties]]],
                  moves |-> 0, ev |-> NoMileEvent]

\* A player's card_slot_<n> event.  The card slot actions are enabled while
\* the game is playing and not between races (_update_card_actions), and a
\* disabled action is not dispatched.
MilePlay(id, n) ==
    /\ gs.tag = "mile"
    /\ gs.game.status = "playing"
    /\ ~timer_is_active(gs.game)
    /\ gs.moves < MaxMileMoves
    /\ LET g0 == [gs.game EXCEPT !.said = NoSaid]
           g1 == mile_action_play_card(g0, id, n)
       IN gs' = [gs EXCEPT !.game = g1,
                           !.ev = [by |-> id, n |-> n,
                                   current |-> g0.players[g0.turn_index + 1],
                                   legal |->
                                     IF n \notin 1..Len(g0.hands[id]) THEN "none"
                                     ELSE IF mile_can_play_card(g0, id, g0.hands[id][n])
                                     THEN "yes" ELSE "no"],
                           !.moves = IF g1 = g0 THEN @ ELSE @ + 1]
    /\ UNCHANGED <<serverVars, sched>>

\* MileByMileGame.on_tick while the round timer is active or the dirty trick
\* window is open (any other tick changes nothing of the game)
MileTick ==
    /\ gs.tag = "mile"
    /\ gs.game.game_active
    /\ IF timer_is_active(gs.game) THEN gs.game.current_race < MaxRaces
       ELSE gs.game.dirty_trick_window_ticks > 0
    /\ gs' = [gs EXCEPT !.game = mile_on_tick([@ EXCEPT !.said = NoSaid]),
                        !.ev = NoMileEvent]
    /\ UNCHANGED <<serverVars, sched>>

NextMile ==
    \/ \E id \in Range(gs.game.players), n \in 0..(MileHandSize + 2) : MilePlay(id, n)
    \/ MileTick

SpecMile == InitMile /\ [][NextMile]_vars

\* C14: when the current player selects a card that cannot legally be played,
\* for a human the hands, the piles, the teams and the turn are unchanged and
\* the player is told why; for a bot the card leaves the hand for the discard
\* pile and the bot's turn ends.
C14_IllegalCardExplainedOrDiscarded ==
    [][LET pre == gs.game
           post == gs'.game
           by == gs'.ev.by
           n == gs'.ev.n
       IN (/\ gs.tag = "mile"
           /\ by # ""
           /\ by = pre.players[pre.turn_index + 1]
           /\ n \in 1..Len(pre.hands[by])
           /\ ~mile_can_play_card(pre, by, pre.hands[by][n]))
          => IF by \in Bots
             THEN /\ post.hands[by] = pop_at(pre.hands[by], n)
                  /\ \/ post.discard_pile = Append(pre.discard_pile, pre.hands[by][n])
                     \/ pre.deck = <<>> /\ pre.reshuffle_discard_pile
                  /\ post.teams = pre.teams
                  /\ \/ post.players[post.turn_index + 1] # by
                     \/ timer_is_active(post)
                     \/ post.status = "finished"
             ELSE /\ post.hands = pre.hands
                  /\ post.deck = pre.deck
                  /\ post.discard_pile = pre.discard_pile
                  /\ post.protections_pile = pre.protections_pile
                  /\ post.teams = pre.teams
                  /\ post.turn_index = pre.turn_index
                  /\ post.said = [user |-> by, msg |-> "milebymile-cant-play"]]_vars

\* A bot whose turn it was has selected a card it could not play; the card is
\* on the discard pile and the turn is the next player's.
C14_Witness ==
    /\ gs.tag = "mile"
    /\ gs.ev.by = "bot"
    /\ gs.ev.current = "bot"
    /\ gs.ev.legal = "no"
    /\ gs.game.discard_pile # <<>>
    /\ gs.game.players[gs.game.turn_index + 1] = "alice"

\* The skips pending when the turn is advanced by the step: the one of a skip
\* card the step has put on the discard pile, else those left from before.
uno_skips_at_advance ==
    IF /\ Len(gs'.game.discard_pile) = Len(gs.game.discard_pile) + 1
       /\ gs'.game.discard_pile[Len(gs'.game.discard_pile)].value = "skip"
    THEN 1 ELSE gs.game.turn_skip_count

\* C15: the current player of a game being played is a member of the turn
\* order and not a spectator; with three players in rotation, an advance with
\* one skip pending moves the turn two seats in the current direction,
\* wrapping around.
C15_AdvanceLandsOnActivePlayer ==
    /\ [](gs.tag = "uno" /\ gs.game.status = "playing" =>
            /\ gs.game.turn_index \in 0..(Len(gs.game.turn_player_ids) - 1)
            /\ current_player(gs.game) \in UnoNames(gs.game.players)
            /\ ~uno_player(gs.game, current_player(gs.game)).is_spectator
            /\ \A i \in 1..Len(gs.game.turn_player_ids) :
                  ~uno_player(gs.game, gs.game.turn_player_ids[i]).is_spectator)
    /\ [][(/\ gs.tag = "uno"
           /\ Len(gs.game.turn_player_ids) = 3
           /\ uno_skips_at_advance = 1
           /\ gs'.game.turn_skip_count = 0
           /\ ~gs'.game.bot_sync)
          => gs'.game.turn_index =
                (gs.game.turn_index + 2 * gs'.game.turn_direction) % 3]_vars

\* Of three players in rotation alice has played a skip card: the bot is
\* passed over and the turn is bob's, two seats on.
C15_Witness ==
    /\ gs.tag = "uno"
    /\ gs.game.status = "playing"
    /\ gs.game.turn_player_ids = <<"alice", "bot", "bob">>
    /\ gs.ev.kind = "play"
    /\ gs.ev.by = "alice"
    /\ gs.ev.current = "alice"
    /\ gs.game.turn_direction = 1
    /\ gs.game.discard_pile[Len(gs.game.discard_pile)].value = "skip"
    /\ current_player(gs.game) = "bob"
    /\ ~gs.game.bot_sync

\* The player a reverse card played by the current player of g passes the
\* turn to: the same player of two, else the one before in the old direction.
after_reverse(g) ==
    IF Len(g.turn_player_ids) = 2 THEN current_player(g)
    ELSE g.turn_player_ids[((g.turn_index - g.turn_direction)
                               % Len(g.turn_player_ids)) + 1]

\* C16: a reverse card played in a game of exactly two active players, and
\* not winning it, returns the turn to the player who played it; with three
\* or more the turn passes to the player before the current one in the old
\* direction.
C16_ReverseWithTwoIsSkip ==
    [][LET pre == gs.game
           post == gs'.game
           by == gs'.ev.by
       IN (/\ gs.tag = "uno"
           /\ gs'.ev.kind = "play"
           /\ by = current_player(pre)
           /\ pre.status = "playing"
           /\ post.status = "playing"
           /\ Len(post.hands[by]) = Len(pre.hands[by]) - 1
           /\ post.discard_pile = Append(pre.discard_pile, UnoCard("red", "reverse"))
           /\ ~post.bot_sync)
          => current_player(post) = after_reverse(pre)]_vars

\* C18: an action a bot has chosen is executed on a later tick: no handler of
\* a player's event, in starting the bot's turn, also plays for the bot.
C18_BotActionsAreDeferred ==
    [][(gs.tag = "uno" /\ gs'.ev.by # "" /\ ~uno_player(gs.game, gs'.ev.by).is_bot)
       => ~gs'.game.bot_sync]_vars

(***************************************************************************)
(* SpecTrade: a game of Tradeoff driven by ticks and by its human players' *)
(* events.  What the code draws at random is fixed when the game starts:   *)
(* g.rolls, the dice of every roll of each player, and g.think, the        *)
(* countdown of every jolt.  g.ran counts, for each player, the actions     *)
(* executed for it by the last tick.                                       *)
(***************************************************************************)
TradeSeatings == {<<"alice", "bot">>, <<"bot", "bot2">>}

TradeBots == {"bot", "bot2"}

NoAction == [id |-> "", arg |-> 0]

\* The action ids of the turn action set that change the game.
TradeActions ==
    {[id |-> "confirm_trades", arg |-> 0]}
      \cup {[id |-> "toggle_trade", arg |-> i] : i \in 0..(TradeDice - 1)}
      \cup {[id |-> "take", arg |-> v] : v \in 1..TradeFaces}

RECURSIVE SumSeq(_)
SumSeq(s) == IF s = <<>> THEN 0 ELSE Head(s) + SumSeq(Tail(s))

NewTrade(ps, rolls, think) ==
    [tag |-> "tradeoff", status |-> "waiting", game_active |-> FALSE,
     players |-> ps, host |-> ps[1], phase |-> "waiting", round |-> 0,
     iteration |-> 0, pool |-> <<>>, taking_order |-> <<>>, taking_index |-> 0,
     hand |-> [id \in Range(ps) |-> <<>>],
     rolled_dice |-> [id \in Range(ps) |-> <<>>],
     trading_indices |-> [id \in Range(ps) |-> {}],
     trades_confirmed |-> [id \in Range(ps) |-> FALSE],
     dice_traded_count |-> [id \in Range(ps) |-> 0],
     dice_taken_count |-> [id \in Range(ps) |-> 0],
     scores |-> [id \in Range(ps) |-> 0],
     bot_think_ticks |-> [id \in Range(ps) |-> 0],
     bot_pending_action |-> [id \in Range(ps) |-> NoAction],
     rolls |-> [id \in Range(ps) |-> rolls[id]], think |-> think,
     ran |-> [id \in Range(ps) |-> 0]]

\* BotHelper.jolt_bot: the bot is given a think countdown.
jolt_bot(g, id) == [g EXCEPT !.bot_think_ticks[id] = g.think]

\* TradeoffGame._start_iteration: every player rolls, all dice marked to
\* trade, nothing confirmed; the bots are jolted.
tr_start_iteration(g) ==
    [g EXCEPT !.iteration = @ + 1, !.phase = "trading", !.pool = <<>>,
              !.rolled_dice = [id \in DOMAIN @ |-> g.rolls[id]],
              !.trading_indices = [id \in DOMAIN @ |-> 0..(Len(g.rolls[id]) - 1)],
              !.trades_confirmed = [id \in DOMAIN @ |-> FALSE],
              !.dice_traded_count = [id \in DOMAIN @ |-> 0],
              !.dice_taken_count = [id \in DOMAIN @ |-> 0],
              !.bot_think_ticks = [id \in DOMAIN @ |->
                                     IF id \in TradeBots THEN g.think ELSE @[id]]]

\* TradeoffGame._start_round
tr_start_round(g) ==
    tr_start_iteration([g EXCEPT !.round = @ + 1, !.iteration = 0,
                                 !.hand = [id \in DOMAIN @ |-> <<>>]])

\* scoring.find_best_scoring: the points of a hand, here its dice of the
\* commonest face.
tr_points(hand) ==
    LET n(v) == Cardinality({i \in 1..Len(hand) : hand[i] = v})
    IN IF hand = <<>> THEN 0
       ELSE n(CHOOSE v \in 1..TradeFaces : \A w \in 1..TradeFaces : n(w) <= n(v))

\* TradeoffGame._do_scoring: the hands are scored; a player at the target
\* score ends the game (_end_game, _show_final_results), else a new round.
tr_do_scoring(g) ==
    LET g1 == [g EXCEPT !.phase = "scoring",
                        !.scores = [id \in DOMAIN @ |-> @[id] + tr_points(g.hand[id])]]
    IN IF \E id \in Range(g.players) : g1.scores[id] >= TradeTarget
       THEN finish_game(g1)
       ELSE tr_start_round(g1)

\* A plausible bug: the iterations are counted from zero, a round has four.
tr_end_iteration_extra(g) ==
    IF g.iteration <= TradeIterations THEN tr_start_iteration(g) ELSE tr_do_scoring(g)

\* TradeoffGame._end_iteration
tr_end_iteration(g) ==
    IF g.iteration < TradeIterations THEN tr_start_iteration(g) ELSE tr_do_scoring(g)

\* The players of ids by score, then by the sum of their dice, then (for
\* random.random()) by seat.
RECURSIVE tr_sorted(_, _)
tr_sorted(g, ids) ==
    IF ids = {} THEN <<>>
    ELSE LET seat(id) == CHOOSE i \in 1..Len(g.players) : g.players[i] = id
             dice(id) == IF g.hand[id] # <<>> THEN SumSeq(g.hand[id])
                         ELSE SumSeq(g.rolled_dice[id])
             before(a, b) ==
                 \/ g.scores[a] < g.scores[b]
                 \/ g.scores[a] = g.scores[b] /\ dice(a) < dice(b)
                 \/ g.scores[a] = g.scores[b] /\ dice(a) = dice(b) /\ seat(a) <= seat(b)
             first == CHOOSE a \in ids : \A b \in ids : before(a, b)
         IN <<first>> \o tr_sorted(g, ids \ {first})

\* TradeoffGame._announce_current_taker: a bot whose turn it is to take is jolted.
tr_announce_current_taker(g) ==
    IF g.taking_index >= Len(g.taking_order) THEN g
    ELSE IF g.taking_order[g.taking_index + 1] \in TradeBots
         THEN jolt_bot(g, g.taking_order[g.taking_index + 1])
    ELSE g

\* TradeoffGame._start_taking_phase
tr_start_taking_phase(g) ==
    LET g1 == [g EXCEPT !.phase = "taking",
                        !.taking_order =
                            tr_sorted(g, {id \in Range(g.players) :
                                            g.dice_traded_count[id] > 0}),
                        !.taking_index = 0,
                        !.dice_taken_count = [id \in DOMAIN @ |-> 0]]
    IN IF g1.taking_order # <<>> THEN tr_announce_current_taker(g1)
       ELSE tr_end_iteration(g1)

\* TradeoffGame._advance_taker: the next player of the taking order who still
\* has dice to take, round-robin; the iteration ends with an empty pool or
\* when nobody has.
tr_advance_taker(g) ==
    LET n == Len(g.taking_order)
        at(k) == (g.taking_index + k) % n
        owes(k) == g.dice_taken_count[g.taking_order[at(k) + 1]]
                     < g.dice_traded_count[g.taking_order[at(k) + 1]]
    IN IF g.pool = <<>> THEN tr_end_iteration(g)
       ELSE IF n = 0 THEN tr_end_iteration(g)
       ELSE IF \E k \in 1..n : owes(k)
       THEN tr_announce_current_taker(
               [g EXCEPT !.taking_index = at(Min({k \in 1..n : owes(k)}))])
       ELSE tr_end_iteration(g)

\* A plausible bug: whose turn it is to take is not checked.
tr_take_die_out_of_turn(g, id, value) ==
    IF g.phase # "taking" THEN g
    ELSE IF g.taking_index >= Len(g.taking_order) THEN g
    ELSE IF g.dice_taken_count[id] >= g.dice_traded_count[id] THEN g
    ELSE IF value \notin Range(g.pool) THEN g
    ELSE tr_advance_taker(
            [g EXCEPT !.pool = pop_at(@, Min({i \in 1..Len(@) : @[i] = value})),
                      !.hand[id] = Append(@, value),
                      !.dice_taken_count[id] = @ + 1])

\* TradeoffGame._take_die
tr_take_die(g, id, value) ==
    IF g.phase # "taking" THEN g
    ELSE IF g.taking_index >= Len(g.taking_order) THEN g
    ELSE IF g.taking_order[g.taking_index + 1] # id THEN g
    ELSE IF g.dice_taken_count[id] >= g.dice_traded_count[id] THEN g
    ELSE IF value \notin Range(g.pool) THEN g
    ELSE tr_advance_taker(
            [g EXCEPT !.pool = pop_at(@, Min({i \in 1..Len(@) : @[i] = value})),
                      !.hand[id] = Append(@, value),
                      !.dice_taken_count[id] = @ + 1])

\* The dice of s at the 0-based indices for which keep holds, in order.
RECURSIVE tr_pick(_, _, _)
tr_pick(s, idx, i) ==
    IF i >= Len(s) THEN <<>>
    ELSE (IF i \in idx THEN <<s[i + 1]>> ELSE <<>>) \o tr_pick(s, idx, i + 1)

\* A plausible bug: the confirmation is recorded and _check_all_traded is
\* not called.
tr_confirm_trades_unchecked(g, id) ==
    IF g.phase # "trading" \/ g.trades_confirmed[id] THEN g
    ELSE [g EXCEPT
             !.trades_confirmed[id] = TRUE,
             !.dice_traded_count[id] = Cardinality(g.trading_indices[id]),
             !.pool = @ \o tr_pick(g.rolled_dice[id], g.trading_indices[id], 0),
             !.hand[id] = @ \o tr_pick(g.rolled_dice[id],
                                       (0..(Len(g.rolled_dice[id]) - 1))
                                          \ g.trading_indices[id], 0),
             !.rolled_dice[id] = <<>>,
             !.trading_indices[id] = {}]

\* TradeoffGame._action_confirm_trades and _check_all_traded
tr_confirm_trades(g, id) ==
    IF g.phase # "trading" \/ g.trades_confirmed[id] THEN g
    ELSE LET all == 0..(Len(g.rolled_dice[id]) - 1)
             g1 == [g EXCEPT
                      !.trades_confirmed[id] = TRUE,
                      !.dice_traded_count[id] = Cardinality(g.trading_indices[id]),
                      !.pool = @ \o tr_pick(g.rolled_dice[id], g.trading_indices[id], 0),
                      !.hand[id] = @ \o tr_pick(g.rolled_dice[id],
                                                all \ g.trading_indices[id], 0),
                      !.rolled_dice[id] = <<>>,
                      !.trading_indices[id] = {}]
         IN IF \A o \in Range(g1.players) : g1.trades_confirmed[o]
            THEN IF g1.pool # <<>> THEN tr_start_taking_phase(g1)
                 ELSE tr_end_iteration(g1)
            ELSE g1

\* TradeoffGame._toggle_trade
tr_toggle_trade(g, id, index) ==
    IF g.phase # "trading" \/ g.trades_confirmed[id] THEN g
    ELSE IF index >= Len(g.rolled_dice[id]) THEN g
    ELSE IF index \in g.trading_indices[id]
         THEN [g EXCEPT !.trading_indices[id] = @ \ {index}]
    ELSE [g EXCEPT !.trading_indices[id] = @ \cup {index}]

\* Game.execute_action: the handler of the action id.
tr_execute_action(g, id, action) ==
    IF action.id = "confirm_trades" THEN tr_confirm_trades(g, id)
    ELSE IF action.id = "toggle_trade" THEN tr_toggle_trade(g, id, action.arg)
    ELSE IF action.id = "take" THEN tr_take_die(g, id, action.arg)
    ELSE g

\* A plausible bug: the countdown is not waited for.
tr_process_bot_hasty(g, id, choice) ==
    IF g.bot_pending_action[id] # NoAction
    THEN tr_execute_action([g EXCEPT !.bot_pending_action[id] = NoAction,
                                     !.ran[id] = @ + 1],
                           id, g.bot_pending_action[id])
    ELSE [g EXCEPT !.bot_pending_action[id] = choice]

\* What _process_trading_bots and _process_taking_bot do for one bot: the
\* countdown is aged, else the pending action is executed, else bot_think is
\* asked (choice is its answer) and the answer is kept for a later tick.
tr_process_bot(g, id, choice) ==
    IF g.bot_think_ticks[id] > 0 THEN [g EXCEPT !.bot_think_ticks[id] = @ - 1]
    ELSE IF g.bot_pending_action[id] # NoAction
    THEN tr_execute_action([g EXCEPT !.bot_pending_action[id] = NoAction,
                                     !.ran[id] = @ + 1],
                           id, g.bot_pending_action[id])
    ELSE [g EXCEPT !.bot_pending_action[id] = choice]

\* TradeoffGame._process_trading_bots: the players in order from seat i.
RECURSIVE tr_process_trading_bots(_, _, _)
tr_process_trading_bots(g, choices, i) ==
    IF i > Len(g.players) THEN g
    ELSE LET id == g.players[i]
         IN tr_process_trading_bots(
               IF id \notin TradeBots \/ g.trades_confirmed[id] THEN g
               ELSE tr_process_bot(g, id, choices[id]),
               choices, i + 1)

\* TradeoffGame._process_taking_bot
tr_process_taking_bot(g, choices) ==
    IF g.taking_index >= Len(g.taking_order) THEN g
    ELSE IF g.taking_order[g.taking_index + 1] \notin TradeBots THEN g
    ELSE tr_process_bot(g, g.taking_order[g.taking_index + 1],
                        choices[g.taking_order[g.taking_index + 1]])

\* TradeoffGame.on_tick
tr_on_tick(g, choices) ==
    LET g0 == [g EXCEPT !.ran = [id \in DOMAIN @ |-> 0]]
    IN IF ~g0.game_active THEN g0
       ELSE IF g0.phase = "trading" THEN tr_process_trading_bots(g0, choices, 1)
       ELSE IF g0.phase = "taking" THEN tr_process_taking_bot(g0, choices)
       ELSE g0

\* TradeoffGame.on_start
tr_on_start(g) ==
    tr_start_round([g EXCEPT !.status = "playing", !.game_active = TRUE,
                             !.round = 0])

InitTrade ==
    /\ phase = "running"
    /\ dbTables = <<>>
    /\ savedTables = {}
    /\ nextSaveId = 1
    /\ tables = <<>>
    /\ nextTableId = 1
    /\ users = {}
    /\ userStates = [u \in Users |-> NoState]
    /\ out = NoOut
    /\ sched = SchedIdle
    /\ \E ps \in TradeSeatings, think \in 1..MaxThinkTicks :
       \E rolls \in [Range(ps) -> [1..TradeDice -> 1..TradeFaces]] :
         gs = [tag |-> "tradeoff", game |-> tr_on_start(NewTrade(ps, rolls, think)),
               ev |-> "start"]

\* TradeoffGame.bot_think: what bot_think_trading or bot_think_taking may
\* answer, an action of the phase or nothing.
tr_bot_think(g) ==
    IF g.phase = "trading"
    THEN {a \in TradeActions : a.id # "take"} \cup {NoAction}
    ELSE IF g.phase = "taking"
    THEN {a \in TradeActions : a.id = "take"} \cup {NoAction}
    ELSE {NoAction}

\* A scheduler tick; choices is what bot_think answers for each bot.
TradeTick ==
    /\ gs.tag = "tradeoff"
    /\ \E choices \in [TradeBots -> tr_bot_think(gs.game)] :
          gs' = [gs EXCEPT !.game = tr_on_tick(@, choices), !.ev = "tick"]
    /\ UNCHANGED <<serverVars, sched>>

\* A human player's event for an action of the turn action set.
TradeEvent(id, action) ==
    /\ gs.tag = "tradeoff"
    /\ id \in Range(gs.game.players) \ TradeBots
    /\ gs.game.status = "playing"
    /\ gs' = [gs EXCEPT !.game = tr_execute_action(@, id, action), !.ev = "event"]
    /\ UNCHANGED <<serverVars, sched>>

NextTrade ==
    \/ TradeTick
    \/ \E id \in Users, action \in TradeActions : TradeEvent(id, action)

SpecTrade == InitTrade /\ [][NextTrade]_vars

\* The bot is one the tick looks at: unconfirmed in the trading phase, the
\* current taker in the taking phase.
tr_eligible(g, id) ==
    /\ g.game_active
    /\ \/ g.phase = "trading" /\ ~g.trades_confirmed[id]
       \/ /\ g.phase = "taking"
          /\ g.taking_index < Len(g.taking_order)
          /\ g.taking_order[g.taking_index + 1] = id

game_started(t) == t.game.tag = "game" /\ t.game.status \in {"playing", "finished"}

\* C19: a table whose game has started is not among the tables
\* get_waiting_tables returns for its game type, and no tables menu the server
\* shows lists it.
C19_StartedTableNotListed ==
    /\ \A id \in DOMAIN tables :
          game_started(tables[id])
              => id \notin get_waiting_tables(tables, tables[id].game_type)
    /\ out.menu = "tables_menu"
          => \A id \in out.listed : id \in DOMAIN tables /\ ~game_started(tables[id])

\* A tables menu is shown that lists a waiting table while another table of
\* the same game type is being played.
C19_Witness ==
    /\ out.menu = "tables_menu"
    /\ out.listed # {}
    /\ \E id \in DOMAIN tables :
          /\ game_started(tables[id])
          /\ tables[id].game_type = "milebymile"

(***************************************************************************)
(* Tables do not interact.                                                 *)
(***************************************************************************)
\* The step handles an event of a player of table id, or ticks its game.
step_of_table(id) ==
    \/ \E raises \in BOOLEAN : TickTable(id, raises)
    \/ \E u \in Users : \E leave \in BOOLEAN :
          /\ AtGame(u)
          /\ find_user_table(tables, u) = id
          /\ HandleEvent(u, leave)

\* C20: a step that handles an event for the game of one table, or ticks the
\* game of one table, leaves every other table as it was: its game's players,
\* turn, status and other fields, and its members.
C20_OtherTablesUnchanged ==
    [][\A id \in DOMAIN tables :
          step_of_table(id)
              => \A j \in DOMAIN tables \ {id} :
                    j \in DOMAIN tables' /\ tables'[j] = tables[j]]_vars

\* In a registry of several games, one game has been ticked while another
\* waits for its tick.
C20_Witness ==
    /\ sched.ticked # {}
    /\ sched.pending # {}
    /\ \E i \in sched.ticked : tables[i].game.delivered
    /\ \E i \in sched.pending : tables[i].game.tag = "game" /\ ~tables[i].game.delivered

(***************************************************************************)
(* Saving a table on request.                                              *)
(***************************************************************************)
\* The records a step has added to table 'saved_tables'.
new_saved == savedTables' \ savedTables

\* C21: a save request leaves the table live only when no record was written,
\* and when the table is torn down exactly one record has been added, by the
\* host, holding the game's JSON and its players with their bot flags; no
\* record is lost by it.
C21_SavedBeforeTornDown ==
    [][\A u \in Users :
          GameSave(u) =>
             LET id == find_user_table(tables, u)
                 g == deliver(tables[id].game)
             IN /\ savedTables \subseteq savedTables'
                /\ IF id \in DOMAIN tables'
                   THEN new_saved = {} /\ out'.raised
                   ELSE /\ Cardinality(new_saved) = 1
                        /\ \A r \in new_saved :
                              /\ r.username = u
                              /\ r.game_type = tables[id].game_type
                              /\ r.game_json = to_json(g)
                              /\ Len(r.members) = Len(g.players)
                              /\ \A k \in 1..Len(g.players) :
                                    /\ r.members[k].username = g.players[k]
                                    /\ r.members[k].is_bot = is_bot(g.players[k])
                        /\ \A i \in DOMAIN tables' : tables'[i] = tables[i]]_vars

\* The host's save has written the newest record, with a bot among the
\* players, and the host, back at the main menu, is at no table.
C21_Witness ==
    \E r \in savedTables :
        /\ r.id = nextSaveId - 1
        /\ r.game_json # CorruptJson
        /\ \E k \in DOMAIN r.members : r.members[k].is_bot
        /\ ~HasTable(tables, r.username)
        /\ userStates[r.username].menu = "main_menu"
        /\ out = NoOut

(***************************************************************************)
(* SpecActions: one ActionSet under its operations.                        *)
(*   gs.set       the ActionSet: actions (_actions, the lookup by id) and  *)
(*                order (_order, the list of ids)                          *)
(*   gs.inserted  history: the ids of the lookup in the order in which     *)
(*                they were first added since they were last removed       *)
(*   gs.ev        the last operation and its arguments                     *)
(***************************************************************************)
ActionIds == {"roll", "bank", "view"}

Labels == {"Roll", "Roll again"}

\* The *action_ids a call may pass: any ids, repeated or not in the set.
IdTuples == UNION {[1..n -> ActionIds] : n \in 0..MaxIdArgs}

\* dataclass Action (the handler and the input request play no part here)
Action(id, label, enabled, hidden) ==
    [id |-> id, label |-> label, enabled |-> enabled, hidden |-> hidden]

\* dataclass ActionSet, as constructed
NewActionSet == [actions |-> [i \in {} |-> Action("", "", FALSE, FALSE)], order |-> <<>>]

InSeq(x, s) == \E k \in 1..Len(s) : s[k] = x

\* list.remove: the first occurrence goes.
RECURSIVE list_remove(_, _)
list_remove(s, x) ==
    IF s = <<>> THEN <<>>
    ELSE IF Head(s) = x THEN Tail(s)
    ELSE <<Head(s)>> \o list_remove(Tail(s), x)

\* A plausible bug: the id is appended whether or not the order has it.
add_always_appends(s, action) ==
    [actions |-> [i \in DOMAIN s.actions \cup {action.id} |->
                     IF i = action.id THEN action ELSE s.actions[i]],
     order |-> Append(s.order, action.id)]

\* ActionSet.add
add(s, action) ==
    [actions |-> [i \in DOMAIN s.actions \cup {action.id} |->
                     IF i = action.id THEN action ELSE s.actions[i]],
     order |-> IF InSeq(action.id, s.order) THEN s.order
               ELSE Append(s.order, action.id)]

\* ActionSet.remove
remove(s, action_id) ==
    [actions |-> [i \in DOMAIN s.actions \ {action_id} |-> s.actions[i]],
     order |-> IF InSeq(action_id, s.order) THEN list_remove(s.order, action_id)
               ELSE s.order]

\* self._actions[aid].enabled = value, if aid in self._actions
set_enabled(s, aid, value) ==
    IF aid \in DOMAIN s.actions THEN [s EXCEPT !.actions[aid].enabled = value] ELSE s

\* self._actions[aid].hidden = value, if aid in self._actions
set_hidden(s, aid, value) ==
    IF aid \in DOMAIN s.actions THEN [s EXCEPT !.actions[aid].hidden = value] ELSE s

\* ActionSet.enable
RECURSIVE enable(_, _)
enable(s, action_ids) ==
    IF action_ids = <<>> THEN s
    ELSE enable(set_enabled(s, Head(action_ids), TRUE), Tail(action_ids))

\* ActionSet.disable
RECURSIVE disable(_, _)
disable(s, action_ids) ==
    IF action_ids = <<>> THEN s
    ELSE disable(set_enabled(s, Head(action_ids), FALSE), Tail(action_ids))

\* ActionSet.show
RECURSIVE show(_, _)
show(s, action_ids) ==
    IF action_ids = <<>> THEN s
    ELSE show(set_hidden(s, Head(action_ids), FALSE), Tail(action_ids))

\* A plausible bug: hiding an action also takes it out of use.
RECURSIVE hide_disables(_, _)
hide_disables(s, action_ids) ==
    IF action_ids = <<>> THEN s
    ELSE hide_disables(set_enabled(set_hidden(s, Head(action_ids), TRUE),
                                   Head(action_ids), FALSE),
                       Tail(action_ids))

\* ActionSet.hide
RECURSIVE hide(_, _)
hide(s, action_ids) ==
    IF action_ids = <<>> THEN s
    ELSE hide(set_hidden(s, Head(action_ids), TRUE), Tail(action_ids))

\* ActionSet.set_label
set_label(s, action_id, label) ==
    IF action_id \in DOMAIN s.actions THEN [s EXCEPT !.actions[action_id].label = label]
    ELSE s

\* The actions of the ids of a list, in the list's order.
actions_of(s, ids) == [k \in 1..Len(ids) |-> s.actions[ids[k]]]

\* A plausible bug: the hidden flag is not looked at.
get_visible_actions_with_hidden(s) ==
    LET keep(aid) == aid \in DOMAIN s.actions /\ s.actions[aid].enabled
    IN actions_of(s, SelectSeq(s.order, keep))

\* ActionSet.get_visible_actions
get_visible_actions(s) ==
    LET keep(aid) == /\ aid \in DOMAIN s.actions
                     /\ s.actions[aid].enabled
                     /\ ~s.actions[aid].hidden
    IN actions_of(s, SelectSeq(s.order, keep))

\* ActionSet.get_enabled_actions
get_enabled_actions(s) ==
    LET keep(aid) == aid \in DOMAIN s.actions /\ s.actions[aid].enabled
    IN actions_of(s, SelectSeq(s.order, keep))

InitActions ==
    /\ phase = "running"
    /\ dbTables = <<>>
    /\ savedTables = {}
    /\ nextSaveId = 1
    /\ tables = <<>>
    /\ nextTableId = 1
    /\ users = {}
    /\ userStates = [u \in Users |-> NoState]
    /\ out = NoOut
    /\ sched = SchedIdle
    /\ gs = [tag |-> "actions", set |-> NewActionSet, inserted |-> <<>>,
             ev |-> [op |-> "new", ids |-> <<>>]]

\* One call on the set.
ActionSetCall(op, ids, s1, inserted1) ==
    /\ gs.tag = "actions"
    /\ gs' = [gs EXCEPT !.set = s1, !.inserted = inserted1,
                        !.ev = [op |-> op, ids |-> ids]]
    /\ UNCHANGED <<serverVars, sched>>

ASAdd(action) ==
    ActionSetCall("add", <<action.id>>, add(gs.set, action),
                  IF action.id \in DOMAIN gs.set.actions THEN gs.inserted
                  ELSE Append(gs.inserted, action.id))

ASRemove(id) ==
    ActionSetCall("remove", <<id>>, remove(gs.set, id), SeqWithout(gs.inserted, id))

ASEnable(ids) == ActionSetCall("enable", ids, enable(gs.set, ids), gs.inserted)

ASDisable(ids) == ActionSetCall("disable", ids, disable(gs.set, ids), gs.inserted)

ASShow(ids) == ActionSetCall("show", ids, show(gs.set, ids), gs.inserted)

ASHide(ids) == ActionSetCall("hide", ids, hide(gs.set, ids), gs.inserted)

ASSetLabel(id, label) ==
    ActionSetCall("set_label", <<id>>, set_label(gs.set, id, label), gs.inserted)

NextActions ==
    \/ \E id \in ActionIds, label \in Labels, enabled \in BOOLEAN, hidden \in BOOLEAN :
          ASAdd(Action(id, label, enabled, hidden))
    \/ \E id \in ActionIds : ASRemove(id)
    \/ \E ids \in IdTuples : ASEnable(ids)
    \/ \E ids \in IdTuples : ASDisable(ids)
    \/ \E ids \in IdTuples : ASShow(ids)
    \/ \E ids \in IdTuples : ASHide(ids)
    \/ \E id \in ActionIds, label \in Labels : ASSetLabel(id, label)

SpecActions == InitActions /\ [][NextActions]_vars

RECURSIVE IsSubseq(_, _)
IsSubseq(a, b) ==
    IF a = <<>> THEN TRUE
    ELSE IF b = <<>> THEN FALSE
    ELSE IF Head(a) = Head(b) THEN IsSubseq(Tail(a), Tail(b))
    ELSE IsSubseq(a, Tail(b))

ids_of(acts) == [k \in 1..Len(acts) |-> acts[k].id]

\* C22: the visible actions are a subsequence of the enabled actions, they
\* are exactly the actions of the set that are enabled and not hidden, each
\* once, and both lists follow the order in which the ids were inserted.
C22_VisibleWithinEnabled ==
    gs.tag = "actions" =>
        LET s == gs.set
            vis == get_visible_actions(s)
            en == get_enabled_actions(s)
        IN /\ IsSubseq(vis, en)
           /\ \A k \in 1..Len(vis) :
                 /\ vis[k].id \in DOMAIN s.actions
                 /\ vis[k] = s.actions[vis[k].id]
                 /\ vis[k].enabled /\ ~vis[k].hidden
           /\ \A aid \in DOMAIN s.actions :
                 (s.actions[aid].enabled /\ ~s.actions[aid].hidden)
                     => Cardinality({k \in 1..Len(vis) : vis[k].id = aid}) = 1
           /\ \A aid \in DOMAIN s.actions :
                 s.actions[aid].enabled
                     => Cardinality({k \in 1..Len(en) : en[k] = s.actions[aid]}) = 1
           /\ IsSubseq(ids_of(vis), gs.inserted)
           /\ IsSubseq(ids_of(en), gs.inserted)

\* Three actions are enabled, the second inserted is hidden, so that the
\* visible list is the first and the third of the enabled list.
C22_Witness ==
    /\ gs.tag = "actions"
    /\ gs.ev.op = "hide"
    /\ Len(get_enabled_actions(gs.set)) = 3
    /\ Len(get_visible_actions(gs.set)) = 2
    /\ gs.set.actions[gs.inserted[2]].hidden

\* The two sets differ at most in the named flag of the actions of ids.
same_but_enabled(s, t, ids) ==
    /\ t.order = s.order
    /\ DOMAIN t.actions = DOMAIN s.actions
    /\ \A aid \in DOMAIN s.actions :
          IF InSeq(aid, ids)
          THEN t.actions[aid] = [s.actions[aid] EXCEPT !.enabled = t.actions[aid].enabled]
          ELSE t.actions[aid] = s.actions[aid]

same_but_hidden(s, t, ids) ==
    /\ t.order = s.order
    /\ DOMAIN t.actions = DOMAIN s.actions
    /\ \A aid \in DOMAIN s.actions :
          IF InSeq(aid, ids)
          THEN t.actions[aid] = [s.actions[aid] EXCEPT !.hidden = t.actions[aid].hidden]
          ELSE t.actions[aid] = s.actions[aid]

\* C23: on every set the operations reach and for every tuple of ids, enable,
\* disable, show and hide give the same set applied twice as applied once;
\* enable and disable change nothing but the enabled flag of the named
\* actions, show and hide nothing but their hidden flag; a call that names
\* only ids the set does not have leaves the set as it was.
C23_FlagOperations ==
    gs.tag = "actions" =>
        LET s == gs.set
        IN \A ids \in IdTuples :
              /\ enable(enable(s, ids), ids) = enable(s, ids)
              /\ disable(disable(s, ids), ids) = disable(s, ids)
              /\ show(show(s, ids), ids) = show(s, ids)
              /\ hide(hide(s, ids), ids) = hide(s, ids)
              /\ same_but_enabled(s, enable(s, ids), ids)
              /\ same_but_enabled(s, disable(s, ids), ids)
              /\ same_but_hidden(s, show(s, ids), ids)
              /\ same_but_hidden(s, hide(s, ids), ids)
              /\ (\A k \in 1..Len(ids) : ids[k] \notin DOMAIN s.actions)
                    => /\ enable(s, ids) = s /\ disable(s, ids) = s
                       /\ show(s, ids) = s /\ hide(s, ids) = s

\* hide was called with an id of the set and an id the set does not have: the
\* action is hidden and still enabled.
C23_Witness ==
    /\ gs.tag = "actions"
    /\ gs.ev.op = "hide"
    /\ Len(gs.ev.ids) = 2
    /\ gs.ev.ids[1] \in DOMAIN gs.set.actions
    /\ gs.ev.ids[2] \notin DOMAIN gs.set.actions
    /\ gs.set.actions[gs.ev.ids[1]].hidden
    /\ gs.set.actions[gs.ev.ids[1]].enabled

\* The order list and the lookup hold the same ids, each once in the list.
order_matches_lookup(s) ==
    /\ \A k \in 1..Len(s.order) : s.order[k] \in DOMAIN s.actions
    /\ \A aid \in DOMAIN s.actions :
          Cardinality({k \in 1..Len(s.order) : s.order[k] = aid}) = 1

\* C24: the order list holds exactly the ids of the lookup, each once, in the
\* order of their insertion; add of an id the set has replaces the action and
\* leaves the order as it is, add of a new id appends it, remove of an id the
\* set does not have changes nothing, remove of one it has takes it out of
\* the lookup and of the list.
C24_OrderMatchesLookup ==
    /\ [](gs.tag = "actions" =>
             /\ order_matches_lookup(gs.set)
             /\ gs.set.order = gs.inserted)
    /\ [][(gs.tag = "actions" /\ gs'.ev.op = "add") =>
             LET id == gs'.ev.ids[1]
             IN /\ id \in DOMAIN gs'.set.actions
                /\ \A aid \in DOMAIN gs.set.actions \ {id} :
                      gs'.set.actions[aid] = gs.set.actions[aid]
                /\ gs'.set.order = IF id \in DOMAIN gs.set.actions THEN gs.set.order
                                   ELSE Append(gs.set.order, id)]_vars
    /\ [][(gs.tag = "actions" /\ gs'.ev.op = "remove") =>
             LET id == gs'.ev.ids[1]
             IN IF id \notin DOMAIN gs.set.actions THEN gs'.set = gs.set
                ELSE /\ DOMAIN gs'.set.actions = DOMAIN gs.set.actions \ {id}
                     /\ ~InSeq(id, gs'.set.order)
                     /\ IsSubseq(gs'.set.order, gs.set.order)
                     /\ Len(gs'.set.order) = Len(gs.set.order) - 1]_vars

\* An action of a set of three has been replaced by add, with another label,
\* and has kept its place at the head of the order.
C24_Witness ==
    /\ gs.tag = "actions"
    /\ gs.ev.op = "add"
    /\ Len(gs.set.order) = 3
    /\ gs.ev.ids[1] = gs.set.order[1]
    /\ gs.set.actions[gs.set.order[1]].label = "Roll again"
    /\ gs.set.actions[gs.set.order[2]].label = "Roll"

(***************************************************************************)
(* SpecTradeBots: a game of bots alone, driven by the ticks, as the test   *)
(* drives it: on_tick is called until the game is finished or the tick     *)
(* limit is reached.                                                       *)
(*   gs.ticks  the calls of on_tick so far                                 *)
(*   gs.idle   for each bot, the answers of bot_think in a row that did    *)
(*             not complete its part of the phase (nothing, or a toggle)   *)
(***************************************************************************)
InitTradeBots ==
    /\ phase = "running"
    /\ dbTables = <<>>
    /\ savedTables = {}
    /\ nextSaveId = 1
    /\ tables = <<>>
    /\ nextTableId = 1
    /\ users = {}
    /\ userStates = [u \in Users |-> NoState]
    /\ out = NoOut
    /\ sched = SchedIdle
    /\ \E rolls \in [TradeBots -> [1..TradeDice -> 1..TradeFaces]], think \in 1..MaxThinkTicks :
         gs = [tag |-> "tradeoff",
               game |-> tr_on_start(NewTrade(<<"bot", "bot2">>, rolls, think)),
               ev |-> "start", ticks |-> 0, idle |-> [id \in TradeBots |-> 0]]

\* bot_think_trading / bot_think_taking answer the action that completes the
\* bot's part: it confirms its trades, it takes a die the pool has.
tr_completing(g) ==
    {a \in tr_bot_think(g) :
        \/ g.phase = "trading" /\ a.id = "confirm_trades"
        \/ g.phase = "taking" /\ a.id = "take" /\ a.arg \in Range(g.pool)}

\* The tick asks bot_think for this bot.
tr_asked(g, id) ==
    /\ tr_eligible(g, id)
    /\ g.bot_think_ticks[id] = 0
    /\ g.bot_pending_action[id] = NoAction

\* What a bot may answer: anything of the phase, until it has answered
\* MaxIdleAnswers times in a row without completing its part.
tr_answers(g, idle) ==
    IF idle < MaxIdleAnswers THEN tr_bot_think(g) ELSE tr_completing(g)

\* The test's loop: one more on_tick while the game is not finished.
TradeBotsTick ==
    /\ gs.tag = "tradeoff"
    /\ gs.game.status # "finished"
    /\ gs.ticks < MaxGameTicks
    /\ \E choices \in [TradeBots -> tr_bot_think(gs.game)] :
          /\ \A id \in TradeBots :
                tr_asked(gs.game, id) => choices[id] \in tr_answers(gs.game, gs.idle[id])
          /\ gs' = [gs EXCEPT
                      !.game = tr_on_tick(@, choices),
                      !.ev = "tick",
                      !.ticks = @ + 1,
                      !.idle = [id \in TradeBots |->
                                  IF ~tr_asked(gs.game, id) THEN @[id]
                                  ELSE IF choices[id] \in tr_completing(gs.game) THEN 0
                                  ELSE @[id] + 1]]
    /\ UNCHANGED <<serverVars, sched>>

NextTradeBots == TradeBotsTick

SpecTradeBots == InitTradeBots /\ [][NextTradeBots]_vars

player_tables(u) ==
    {i \in DOMAIN tables : tables[i].game.tag = "game"
                             /\ get_player_by_name(tables[i].game, u)}

\* A selection of the user handled by a lobby menu handler.
LobbyStep(u) ==
    \/ SelectPlay(u)
    \/ SelectBack(u)
    \/ CreateTable(u)
    \/ \E id \in DOMAIN tables : SelectTable(u, id)
    \/ \E spectator \in BOOLEAN : Join(u, spectator)
    \/ SelectSavedTables(u)
    \/ \E sid \in 1..(1 + MaxSaves) : SelectSaved(u, sid)
    \/ Restore(u)
    \/ DeleteSaved(u)

C26_Routed ==
    \A u \in users :
        (phase = "running" /\ player_tables(u) # {})
            => AtGame(u) /\ find_user_table(tables, u) \in player_tables(u)

C26_NoLobby == [][\A u \in Users : player_tables(u) # {} => ~LobbyStep(u)]_vars

C26_Cleanup ==
    [][\A u \in Users :
          GameLeave(u) =>
              /\ u \notin MemberNames(tables'[find_user_table(tables, u)])
              /\ userStates'[u] = MenuState("main_menu")]_vars

\* C26: the events of a connected user who is a player at a live table are
\* handled by the game of that table and by no lobby menu handler, and a
\* user whom the event leaves without a seat in the game is taken out of the
\* table's membership and shown the main menu.
C26_PlayerEventsGoToGame == []C26_Routed /\ C26_NoLobby /\ C26_Cleanup

(***************************************************************************)
(* SpecConn: connections before and after authorize, at a server with two  *)
(* live tables.                                                            *)
(***************************************************************************)
PacketTypes == {"menu", "keybind", "editbox", "chat", "ping"}

\* The ClientConnection of a user: authenticated and named by
\* _handle_authorize, new again after a disconnect.
client_of(u) ==
    IF u \in users THEN [authenticated |-> TRUE, username |-> u]
    ELSE [authenticated |-> FALSE, username |-> ""]

\* A plausible bug: the packets are dispatched whoever sends them.
on_client_message_unchecked(client, packet_type) ==
    IF packet_type = "authorize" THEN "_handle_authorize"
    ELSE IF packet_type = "menu" THEN "_handle_menu"
    ELSE IF packet_type = "keybind" THEN "_handle_keybind"
    ELSE IF packet_type = "editbox" THEN "_handle_editbox"
    ELSE IF packet_type = "chat" THEN "_handle_chat"
    ELSE IF packet_type = "ping" THEN "_handle_ping"
    ELSE ""

\* Server._on_client_message: the handler the packet is given to, "" for none.
on_client_message(client, packet_type) ==
    IF packet_type = "authorize" THEN "_handle_authorize"
    ELSE IF ~client.authenticated THEN ""
    ELSE IF packet_type = "menu" THEN "_handle_menu"
    ELSE IF packet_type = "keybind" THEN "_handle_keybind"
    ELSE IF packet_type = "editbox" THEN "_handle_editbox"
    ELSE IF packet_type = "chat" THEN "_handle_chat"
    ELSE IF packet_type = "ping" THEN "_handle_ping"
    ELSE ""

\* What the handler sends back to a client: _handle_ping answers pong,
\* _handle_chat sends the message round, the others return at once for a
\* client without a username.
handler_reply(client, handler) ==
    IF handler = "_handle_ping" THEN "pong"
    ELSE IF handler = "_handle_chat" /\ client.username # "" THEN "chat"
    ELSE ""

\* A packet other than authorize from the connection of a user who has not
\* authorized (yet, or again after a disconnect).
UnauthPacket(u, packet_type) ==
    /\ phase = "running"
    /\ u \notin users
    /\ out' = [NoOut EXCEPT
                 !.req = packet_type,
                 !.msg = handler_reply(client_of(u),
                                       on_client_message(client_of(u), packet_type))]
    /\ UNCHANGED <<phase, dbTables, savedTables, nextSaveId, tables, nextTableId,
                   users, userStates, sched, gs>>

\* A ping or a chat message of an authorized user.
AuthPacket(u, packet_type) ==
    /\ phase = "running"
    /\ u \in users
    /\ packet_type \in {"ping", "chat"}
    /\ out' = [NoOut EXCEPT
                 !.req = packet_type,
                 !.user = u,
                 !.msg = handler_reply(client_of(u),
                                       on_client_message(client_of(u), packet_type))]
    /\ UNCHANGED <<phase, dbTables, savedTables, nextSaveId, tables, nextTableId,
                   users, userStates, sched, gs>>

InitConn ==
    /\ phase = "running"
    /\ dbTables = <<>>
    /\ savedTables = {}
    /\ nextSaveId = 1
    /\ tables = SchedTables(MaxSchedTables)
    /\ nextTableId = MaxDbTables + MaxNewTables + 1
    /\ users = {}
    /\ userStates = [u \in Users |-> NoState]
    /\ out = NoOut
    /\ sched = SchedIdle
    /\ gs = GameIdle

NextConn ==
    \/ \E u \in Users : Authorize(u)
    \/ \E u \in Users : Disconnect(u)
    \/ \E u \in Users, t \in PacketTypes : UnauthPacket(u, t)
    \/ \E u \in Users, t \in PacketTypes : AuthPacket(u, t)
    \/ \E u \in Users : GameEvent(u)
    \/ \E u \in Users : GameLeave(u)
    \/ \E u \in Users : SelectPlay(u)
    \/ \E u \in Users : SelectBack(u)

SpecConn == InitConn /\ [][NextConn]_vars

\* C27: a menu, keybind, editbox, chat or ping packet of a connection that
\* has not authorized changes nothing of the server, its tables and their
\* games, and is answered by nothing: no reply, no disconnect.
C27_UnauthenticatedPacketsDropped ==
    [][\A u \in Users, t \in PacketTypes :
          UnauthPacket(u, t) =>
              /\ UNCHANGED <<phase, dbTables, savedTables, nextSaveId, tables,
                             nextTableId, users, userStates, sched, gs>>
              /\ on_client_message(client_of(u), t) = ""
              /\ out'.msg = "" /\ out'.user = "" /\ out'.menu = ""]_vars

\* A ping came from the connection of a user who left a game by leaving it
\* or who is still a player of it, before any new authorize, and went
\* unanswered.
C27_Witness ==
    /\ out.req = "ping"
    /\ out.msg = ""
    /\ \E u \in Users : u \notin users /\ player_tables(u) # {}

(***************************************************************************)
(* Reconnecting.                                                           *)
(***************************************************************************)
\* C28: an authorize of a user whose table (the one the registry finds for
\* the user) is live leaves the user in the game menu of that table, an
\* authorize of any other user leaves the user at the main menu; so the
\* user's menu after an authorize is always in_game or main_menu.
C28_ReconnectHasContext ==
    [][\A u \in Users :
          Authorize(u) =>
              /\ userStates'[u].menu \in {"in_game", "main_menu"}
              /\ AtTable(u) =>
                     userStates'[u] = InGameState(find_user_table(tables, u))
              /\ ~AtTable(u) => userStates'[u] = MenuState("main_menu")]_vars

(***************************************************************************)
(* Restoring a saved table.                                                *)
(***************************************************************************)
\* The restore request of u finds its record and the record's game class.
RestoreOfRecord(u) ==
    /\ userStates[u].menu = "saved_table_actions_menu"
    /\ HasSaved(userStates[u].save_id)
    /\ get_game_class(get_saved_table(userStates[u].save_id).game_type)

\* A restore of a record one of whose human members is offline or at a table
\* registers no table, puts nobody into a game and keeps the record.
C29_Refused ==
    [][\A u \in Users :
          (Restore(u) /\ RestoreOfRecord(u)
             /\ missing_players(get_saved_table(userStates[u].save_id)) # {}) =>
              /\ tables' = tables
              /\ savedTables' = savedTables
              /\ out'.msg = "missing-players"
              /\ \A x \in Users : userStates'[x].menu = "in_game"
                                     => userStates'[x] = userStates[x]]_vars

\* A restore deletes a record only when it has registered a table with the
\* record's game and its human members.
C29_DeletedAfterSuccess ==
    [][\A u \in Users :
          (Restore(u) /\ savedTables' # savedTables) =>
              /\ RestoreOfRecord(u)
              /\ savedTables' = delete_saved_table(savedTables, userStates[u].save_id)
              /\ DOMAIN tables' = DOMAIN tables \cup {nextTableId}
              /\ nextTableId \notin DOMAIN tables
              /\ tables'[nextTableId].game.tag = "game"
              /\ HumanMembers(get_saved_table(userStates[u].save_id))
                    \subseteq MemberNames(tables'[nextTableId])]_vars

\* A restore that registers a table deletes the record it came from, so that
\* no second table can come from it.
C29_OneTablePerRecord ==
    [][\A u \in Users :
          (Restore(u) /\ DOMAIN tables' # DOMAIN tables) =>
              /\ RestoreOfRecord(u)
              /\ ~HasSaved(userStates[u].save_id)']_vars

\* C29: a restore is refused when a human member of the saved record is
\* offline or already at a live table; a refused restore registers no table,
\* attaches nobody and keeps the record; a restore deletes the record only
\* after it succeeded; and a restore that registers a table deletes the
\* record, so one record yields at most one live table.
C29_RestoreOncePerRecord ==
    C29_Refused /\ C29_DeletedAfterSuccess /\ C29_OneTablePerRecord

(***************************************************************************)
(* UNO: the colour of a wild card.                                         *)
(***************************************************************************)
\* The player after whose colour choice the turn goes to a human player.
next_is_human(g) == ~uno_player(g, current_player(turn_advance(g))).is_bot

\* C30: while the colour of a wild card is awaited, a play or a draw of any
\* player and a colour choice of any player but the one who played the wild
\* (or of a colour that is none of the four) change nothing of the game: no
\* card moves and the turn stays; the choice of one of the four colours by
\* the player who played the wild makes it the current colour, clears the
\* pending choice and moves the turn on by the turn order.
C30_ColourChoiceGatesTheTurn ==
    [][(gs.tag = "uno" /\ gs.game.pending_color_player_id # "") =>
          LET g == gs.game
              awaited == g.pending_color_player_id
              by == gs'.ev.by
          IN /\ gs'.ev.kind \in {"play", "draw"} =>
                   uno_called(gs'.game) = uno_called(g)
             /\ (gs'.ev.kind = "color" /\ by # awaited) =>
                   uno_called(gs'.game) = uno_called(g)
             /\ \A color \in {"red", "blue", "purple"} :
                   UnoChooseColor(awaited, color) =>
                      IF color \notin Range(UNO_COLORS)
                      THEN uno_called(gs'.game) = uno_called(g)
                      ELSE /\ gs'.game.pending_color_player_id = ""
                           /\ gs'.game.pending_color_value = ""
                           /\ next_is_human(g) =>
                                 /\ gs'.game.current_color = color
                                 /\ gs'.game.current_value = g.pending_color_value
                                 /\ current_player(gs'.game)
                                       = current_player(turn_advance(g))]_vars

\* The player who played a wild has chosen its colour and the turn is
\* another player's, in a game of more than two seats.
C30_Witness ==
    /\ gs.tag = "uno"
    /\ gs.ev.kind = "color"
    /\ gs.ev.by = gs.ev.current
    /\ gs.game.status = "playing"
    /\ gs.game.pending_color_player_id = ""
    /\ gs.game.current_value \in {WILD, WILD_DRAW_FOUR}
    /\ gs.game.current_color \in {"red", "blue"}
    /\ current_player(gs.game) # gs.ev.by
    /\ Len(gs.game.players) > 2

(***************************************************************************)
(* Mile by Mile: distance cards.                                           *)
(***************************************************************************)
\* C31: a team's miles grow, within a race, only by a step before which the
\* team held Right of Way or had no problem but a speed limit, and by at most
\* 50 when it was under a speed limit; with only_allow_perfect_crossing the
\* miles of a team never exceed the round distance.
C31_DistanceOnlyWhenLegal ==
    /\ [](gs.tag = "mile" =>
            \A id \in Range(gs.game.players) :
               gs.game.only_allow_perfect_crossing
                  => gs.game.teams[id].miles <= MileRoundDistance)
    /\ [][gs.tag = "mile" =>
            \A id \in Range(gs.game.players) :
               LET pre == gs.game.teams[id]
                   post == gs'.game.teams[id]
               IN post.miles > pre.miles =>
                     /\ "right_of_way" \in pre.safeties
                           \/ pre.problems \subseteq {"speed_limit"}
                     /\ "speed_limit" \in pre.problems => post.miles - pre.miles <= 50
                     /\ gs'.ev.by = id]_vars

\* A team under a speed limit has gained 50 miles, and a team that holds
\* Right of Way has gained miles with an accident unrepaired.
C31_Witness ==
    /\ gs.tag = "mile"
    /\ gs.ev.legal = "yes"
    /\ \E id \in Range(gs.game.players) :
          /\ gs.game.teams[id].miles = 50
          /\ "speed_limit" \in gs.game.teams[id].problems
    /\ \E id \in Range(gs.game.players) :
          /\ gs.game.teams[id].miles > 0
          /\ gs.game.teams[id].problems = {"accident"}

(***************************************************************************)
(* SpecTrick: hazards, safeties and the dirty trick in a race of Mile by   *)
(* Mile between two players.  gs.last is the history the claims speak of:  *)
(* the team and the card of the last hazard applied, the ticks the game has *)
(* been given since, and whether a dirty trick has answered it.            *)
(***************************************************************************)
TrickKinds ==
    <<MileCard("hazard", "speed_limit", 0), MileCard("safety", "right_of_way", 0),
      MileCard("distance", "50", 50), MileCard("hazard", "accident", 0),
      MileCard("safety", "driving_ace", 0), MileCard("distance", "50", 50)>>

\* The decks as shuffled: runs of the kinds, forwards and backwards.
TrickDecks ==
    {[i \in 1..(2 * MileHandSize + MileSpareCards) |->
         TrickKinds[((i * a + b) % Len(TrickKinds)) + 1]] :
       a \in {1, Len(TrickKinds) - 1}, b \in 1..Len(TrickKinds)}

\* A team some turns into the race: stopped at the start, or rolling one
\* card short of the round distance.
TrickConditions ==
    {[problems |-> {"stop"}, miles |-> 0],
     [problems |-> {}, miles |-> MileRoundDistance - 50]}

NoHazard == [team |-> "", hazard |-> "", age |-> 0, answered |-> FALSE]

InitTrick ==
    /\ phase = "running"
    /\ dbTables = <<>>
    /\ savedTables = {}
    /\ nextSaveId = 1
    /\ tables = <<>>
    /\ nextTableId = 1
    /\ users = {}
    /\ userStates = [u \in Users |-> NoState]
    /\ out = NoOut
    /\ sched = SchedIdle
    /\ \E seats \in MileSeatings, karma \in BOOLEAN, deck \in TrickDecks :
         \E ps \in [Range(seats) -> TrickConditions] :
            gs = [tag |-> "mile",
                  game |-> [mile_on_start(NewMile(seats, FALSE, FALSE, deck))
                              EXCEPT !.karma_rule = karma,
                                     !.teams = [id \in DOMAIN @ |->
                                         [@[id] EXCEPT !.problems = ps[id].problems,
                                                       !.miles = ps[id].miles]]],
                  moves |-> 0, ev |-> NoMileEvent, last |-> NoHazard]

\* The team a step has given a new problem, "" for none.
hazard_target(g0, g1) ==
    LET hit == {id \in Range(g0.players) :
                  /\ g0.current_race = g1.current_race
                  /\ ~(g1.teams[id].problems \subseteq g0.teams[id].problems)}
    IN IF hit = {} THEN "" ELSE CHOOSE id \in hit : TRUE

\* A player's card_slot_<n> event (the card slot actions are enabled while
\* the game is playing and not between races).
TrickPlay(id, n) ==
    /\ gs.tag = "mile"
    /\ gs.game.status = "playing"
    /\ ~timer_is_active(gs.game)
    /\ gs.moves < MaxMileMoves
    /\ LET g0 == [gs.game EXCEPT !.said = NoSaid]
           g1 == mile_action_play_card(g0, id, n)
           target == hazard_target(g0, g1)
       IN gs' = [gs EXCEPT
                   !.game = g1,
                   !.ev = [by |-> id, n |-> n,
                           current |-> g0.players[g0.turn_index + 1],
                           legal |->
                             IF n \notin 1..Len(g0.hands[id]) THEN "none"
                             ELSE IF mile_can_play_card(g0, id, g0.hands[id][n])
                             THEN "yes" ELSE "no"],
                   !.last = IF target = "" THEN @
                            ELSE [team |-> target, hazard |-> g0.hands[id][n].value,
                                  age |-> 0, answered |-> FALSE],
                   !.moves = IF g1 = g0 THEN @ ELSE @ + 1]
    /\ UNCHANGED <<serverVars, sched>>

\* A player's dirty_trick event.  update_turn_actions enables the action for
\* the members of the window's team, whether a race is on or the round timer
\* is counting.
TrickDirty(id) ==
    /\ gs.tag = "mile"
    /\ gs.game.status = "playing"
    /\ gs.moves < MaxMileMoves
    /\ LET g0 == [gs.game EXCEPT !.said = NoSaid]
           g1 == mile_action_dirty_trick(g0, id)
       IN gs' = [gs EXCEPT
                   !.game = g1,
                   !.ev = [by |-> id, n |-> 0,
                           current |-> g0.players[g0.turn_index + 1],
                           legal |-> "trick"],
                   !.last = IF g1.protections_pile = g0.protections_pile THEN @
                            ELSE [@ EXCEPT !.answered = TRUE],
                   !.moves = IF g1 = g0 THEN @ ELSE @ + 1]
    /\ UNCHANGED <<serverVars, sched>>

\* MileByMileGame.on_tick
TrickTick ==
    /\ gs.tag = "mile"
    /\ gs.game.game_active
    /\ IF timer_is_active(gs.game) THEN gs.game.current_race < MaxRaces
       ELSE gs.game.dirty_trick_window_ticks > 0
    /\ gs' = [gs EXCEPT !.game = mile_on_tick([@ EXCEPT !.said = NoSaid]),
                        !.ev = NoMileEvent,
                        !.last = IF @.team = "" \/ @.age >= DirtyTrickTicks THEN @
                                 ELSE [@ EXCEPT !.age = @ + 1]]
    /\ UNCHANGED <<serverVars, sched>>

NextTrick ==
    \/ \E id \in Range(gs.game.players), n \in 1..(MileHandSize + 1) : TrickPlay(id, n)
    \/ \E id \in Range(gs.game.players) : TrickDirty(id)
    \/ TrickTick

SpecTrick == InitTrick /\ [][NextTrick]_vars

\* The step is a dirty trick that succeeded: a safety has been played to the
\* protections pile.
trick_played ==
    /\ gs'.ev.legal = "trick"
    /\ gs'.game.protections_pile # gs.game.protections_pile

\* C32: a dirty trick succeeds only for the team the last applied hazard was
\* played on, before DirtyTrickTicks ticks have passed since and before
\* another trick has answered it, and adds exactly the safety that blocks
\* that hazard; the window is open from the hazard until the trick or the
\* last of those ticks, whichever comes first, and it is open exactly when
\* its tick counter is positive, the counter being the ticks left.
C32_DirtyTrickWindow ==
    /\ [](gs.tag = "mile" =>
            LET g == gs.game
                open == /\ gs.last.team # ""
                        /\ ~gs.last.answered
                        /\ gs.last.age < DirtyTrickTicks
            IN /\ (g.dirty_trick_window_team # "") <=> (g.dirty_trick_window_ticks > 0)
               /\ (g.dirty_trick_window_team # "") <=> open
               /\ open => /\ g.dirty_trick_window_team = gs.last.team
                          /\ g.dirty_trick_window_hazard = gs.last.hazard
                          /\ g.dirty_trick_window_ticks = DirtyTrickTicks - gs.last.age)
    /\ [][(gs.tag = "mile" /\ trick_played) =>
            LET by == gs'.ev.by
            IN /\ gs.last.team = by
               /\ ~gs.last.answered
               /\ gs.last.age < DirtyTrickTicks
               /\ gs'.game.teams[by].safeties =
                     gs.game.teams[by].safeties \cup {HAZARD_TO_SAFETY(gs.last.hazard)}
               /\ gs'.game.dirty_trick_window_team = ""
               /\ gs'.game.dirty_trick_window_ticks = 0]_vars

\* An accident was answered by a dirty trick with the Driving Ace a tick
\* after it was played.
C32_Witness ==
    /\ gs.tag = "mile"
    /\ gs.ev.legal = "trick"
    /\ gs.last.answered
    /\ gs.last.hazard = "accident"
    /\ gs.last.age = 1
    /\ "driving_ace" \in gs.game.teams[gs.ev.by].safeties
    /\ "accident" \notin gs.game.teams[gs.ev.by].problems

(***************************************************************************)
(* Mile by Mile between races.                                             *)
(***************************************************************************)
\* C33: while the round timer between races is active no card leaves a hand
\* or reaches a pile, no team's miles, problems or safeties change and the
\* turn stays where it is; the timer stops being active only by starting
\* the next race.
C33_NothingMovesBetweenRaces ==
    [][(gs.tag = "mile" /\ timer_is_active(gs.game)) =>
          IF timer_is_active(gs'.game)
          THEN /\ gs'.game.hands = gs.game.hands
               /\ gs'.game.deck = gs.game.deck
               /\ gs'.game.discard_pile = gs.game.discard_pile
               /\ gs'.game.protections_pile = gs.game.protections_pile
               /\ gs'.game.teams = gs.game.teams
               /\ gs'.game.turn_index = gs.game.turn_index
               /\ gs'.game.current_race = gs.game.current_race
          ELSE /\ gs'.ev = NoMileEvent
               /\ gs'.game.current_race = gs.game.current_race + 1]_vars

(***************************************************************************)
(* The taking phase of Tradeoff.                                           *)
(***************************************************************************)
\* How many dice of the pool show the face v.
tr_count(pool, v) == Cardinality({i \in 1..Len(pool) : pool[i] = v})

\* The player whose turn it is to take.
tr_taker(g) == g.taking_order[g.taking_index + 1]

\* The first player after the current taker, round-robin in the taking
\* order, who in h has taken fewer dice than traded.
tr_next_taker(g, h) ==
    LET n == Len(g.taking_order)
        at(k) == ((g.taking_index + k) % n) + 1
        owes(k) == h.dice_taken_count[g.taking_order[at(k)]]
                     < h.dice_traded_count[g.taking_order[at(k)]]
    IN g.taking_order[at(Min({k \in 1..n : owes(k)}))]

\* C34: in the taking phase only the player at taking_order[taking_index]
\* takes; a take moves exactly one die of the asked value from the pool to
\* the taker's hand and passes the turn round-robin to the next player who
\* still has dice to take; nobody takes more than they traded; the phase
\* ends exactly when the pool is empty.
C34_TakingPhase ==
    /\ []((gs.tag = "tradeoff" /\ gs.game.phase = "taking"
             /\ gs.game.status = "playing") =>
            /\ gs.game.pool # <<>>
            /\ gs.game.taking_index < Len(gs.game.taking_order)
            /\ \A id \in Range(gs.game.players) :
                  gs.game.dice_taken_count[id] <= gs.game.dice_traded_count[id]
            /\ gs.game.dice_taken_count[tr_taker(gs.game)]
                 < gs.game.dice_traded_count[tr_taker(gs.game)])
    /\ [][(gs.tag = "tradeoff" /\ gs.game.phase = "taking"
             /\ gs.game.status = "playing") =>
            \/ /\ gs'.game.pool = gs.game.pool
               /\ gs'.game.hand = gs.game.hand
               /\ gs'.game.dice_taken_count = gs.game.dice_taken_count
               /\ gs'.game.taking_index = gs.game.taking_index
               /\ gs'.game.taking_order = gs.game.taking_order
               /\ gs'.game.phase = "taking"
            \/ \E v \in Range(gs.game.pool) :
                  /\ (gs'.game.phase # "taking") <=> (Len(gs.game.pool) = 1)
                  /\ gs'.game.round = gs.game.round =>
                        gs'.game.hand =
                           [gs.game.hand EXCEPT ![tr_taker(gs.game)] = Append(@, v)]
                  /\ gs'.game.phase = "taking" =>
                        /\ \A w \in 1..TradeFaces :
                              tr_count(gs'.game.pool, w) =
                                 tr_count(gs.game.pool, w) - (IF w = v THEN 1 ELSE 0)
                        /\ gs'.game.dice_taken_count =
                              [gs.game.dice_taken_count EXCEPT
                                  ![tr_taker(gs.game)] = @ + 1]
                        /\ gs'.game.taking_order = gs.game.taking_order
                        /\ tr_taker(gs'.game) = tr_next_taker(gs.game, gs'.game)]_vars

\* The first taker has taken a die and the turn has passed to the second,
\* who still has one to take.
C34_Witness ==
    /\ gs.tag = "tradeoff"
    /\ gs.game.phase = "taking"
    /\ gs.game.taking_index = 1
    /\ gs.game.dice_taken_count[gs.game.taking_order[1]] = 1
    /\ Len(gs.game.pool) = 1
    /\ gs.game.hand[gs.game.taking_order[1]] # <<>>

\* The dice a player has or is still to get in this iteration: the hand, the
\* dice rolled and not yet confirmed, the dice traded and not yet taken back.
tr_dice_of(g, id) ==
    Len(g.hand[id]) + Len(g.rolled_dice[id])
      + (g.dice_traded_count[id] - g.dice_taken_count[id])

\* C35: a round of Tradeoff has exactly three iterations; the taking phase
\* begins only when every player has confirmed, and a confirmation is
\* final; a hand holds one roll (five dice, here TradeDice) more after each
\* iteration, and three rolls (fifteen dice) when it is scored.
C35_ThreeIterations ==
    /\ []((gs.tag = "tradeoff" /\ gs.game.status = "playing") =>
            /\ gs.game.iteration \in 1..TradeIterations
            /\ gs.game.phase \in {"trading", "taking"}
            /\ gs.game.phase = "taking" =>
                  \A id \in Range(gs.game.players) : gs.game.trades_confirmed[id]
            /\ \A id \in Range(gs.game.players) :
                  tr_dice_of(gs.game, id) = gs.game.iteration * TradeDice)
    /\ []((gs.tag = "tradeoff" /\ gs.game.status = "finished") =>
            /\ gs.game.iteration = TradeIterations
            /\ \A id \in Range(gs.game.players) :
                  Len(gs.game.hand[id]) = TradeIterations * TradeDice)
    /\ [][(gs.tag = "tradeoff" /\ gs.game.status = "playing") =>
            /\ \/ /\ gs'.game.iteration = gs.game.iteration
                  /\ gs'.game.round = gs.game.round
                  /\ gs'.game.scores = gs.game.scores
                  /\ \A id \in Range(gs.game.players) :
                        gs.game.trades_confirmed[id] =>
                           /\ gs'.game.trades_confirmed[id]
                           /\ gs'.game.dice_traded_count[id]
                                = gs.game.dice_traded_count[id]
                           /\ gs'.game.trading_indices[id] = {}
               \/ /\ gs'.game.iteration = gs.game.iteration + 1
                  /\ gs'.game.round = gs.game.round
                  /\ gs'.game.scores = gs.game.scores
                  /\ \A id \in Range(gs.game.players) :
                        Len(gs'.game.hand[id]) = gs.game.iteration * TradeDice
               \/ /\ gs.game.iteration = TradeIterations
                  /\ \/ gs'.game.status = "finished"
                     \/ /\ gs'.game.round = gs.game.round + 1
                        /\ gs'.game.iteration = 1
                        /\ \A id \in Range(gs.game.players) :
                              gs'.game.hand[id] = <<>>]_vars

\* A game with a human player is finished: the hands scored last hold three
\* rolls each.
C35_Witness ==
    /\ gs.tag = "tradeoff"
    /\ gs.game.status = "finished"
    /\ gs.game.iteration = TradeIterations
    /\ "alice" \in Range(gs.game.players)
    /\ Len(gs.game.hand["alice"]) = TradeIterations * TradeDice
    /\ gs.game.round >= 2

(***************************************************************************)
(* Membership of the tables.                                               *)
(***************************************************************************)
\* C36: at every moment each username is a member of at most one table of
\* the registry: creating a table, joining as player or spectator and
\* restoring a saved table never add a user who is a member of another.
C36_MemberOfOneTable ==
    \A u \in Users : Cardinality(UserTables(tables, u)) <= 1

\* C37: a user becomes a player of a game, and a playing member of its
\* table, only while the game's status is waiting and it has fewer than its
\* maximum number of players: a join request for a started or full game adds
\* no player and no member.
C37_JoinOnlyWhileWaiting ==
    [][\A i \in DOMAIN tables \cap DOMAIN tables' : \A u \in Users :
          (/\ tables[i].game.tag = "game"
           /\ \/ /\ tables'[i].game.tag = "game"
                 /\ u \in Range(tables'[i].game.players)
                 /\ u \notin Range(tables[i].game.players)
              \/ /\ Member(u, FALSE) \in tables'[i].members
                 /\ Member(u, FALSE) \notin tables[i].members)
          => /\ tables[i].game.status = "waiting"
             /\ Len(tables[i].game.players) < MaxPlayers]_vars

(***************************************************************************)
(* SpecClients: the connections of the network layer and the server's user *)
(* registry.  A username may be given by more than one connection.         *)
(*   gs.conns     for each connection, the ClientConnection's fields       *)
(*   gs.registry  for each username of _users, the connection its          *)
(*                NetworkUser was built with                               *)
(* users is the set of keys of _users.                                     *)
(***************************************************************************)
Clients == {"c1", "c2"}

NoClient == [connected |-> FALSE, authenticated |-> FALSE, username |-> ""]

InitClients ==
    /\ phase = "running"
    /\ dbTables = <<>>
    /\ savedTables = {}
    /\ nextSaveId = 1
    /\ tables = <<>>
    /\ nextTableId = 1
    /\ users = {}
    /\ userStates = [u \in Users |-> NoState]
    /\ out = NoOut
    /\ sched = SchedIdle
    /\ gs = [tag |-> "clients", conns |-> [c \in Clients |-> NoClient],
             registry |-> [u \in Users |-> ""]]

\* Server._on_client_connect: a new connection, not authenticated.
ClientConnect(c) ==
    /\ gs.tag = "clients"
    /\ ~gs.conns[c].connected
    /\ gs' = [gs EXCEPT !.conns[c] = [NoClient EXCEPT !.connected = TRUE]]
    /\ out' = NoOut
    /\ UNCHANGED <<phase, dbTables, savedTables, nextSaveId, tables, nextTableId,
                   users, userStates, sched>>

\* Server._handle_authorize for credentials the AuthManager accepts: the
\* connection is marked, a NetworkUser for it is stored under the username
\* (in place of one already there) and the user is shown a menu.
ClientAuthorize(c, u) ==
    /\ gs.tag = "clients"
    /\ gs.conns[c].connected
    /\ gs' = [gs EXCEPT !.conns[c].username = u,
                        !.conns[c].authenticated = TRUE,
                        !.registry[u] = c]
    /\ users' = users \cup {u}
    /\ IF AtTable(u)
       THEN LET id == find_user_table(tables, u)
            IN IF get_player_by_name(tables[id].game, u)
               THEN userStates' = [userStates EXCEPT ![u] = InGameState(id)]
               ELSE userStates' = userStates
       ELSE userStates' = show_main_menu(userStates, u)
    /\ out' = [NoOut EXCEPT !.req = "authorize", !.user = u]
    /\ UNCHANGED <<phase, dbTables, savedTables, nextSaveId, tables, nextTableId,
                   sched>>

\* Server._on_client_disconnect: the entries of the connection's username
\* are taken out of _users and _user_states.
ClientDisconnect(c) ==
    /\ gs.tag = "clients"
    /\ gs.conns[c].connected
    /\ LET name == gs.conns[c].username
       IN IF name # ""
          THEN /\ users' = users \ {name}
               /\ userStates' = [userStates EXCEPT ![name] = NoState]
               /\ gs' = [gs EXCEPT !.conns[c] = NoClient, !.registry[name] = ""]
          ELSE /\ gs' = [gs EXCEPT !.conns[c] = NoClient]
               /\ UNCHANGED <<users, userStates>>
    /\ out' = NoOut
    /\ UNCHANGED <<phase, dbTables, savedTables, nextSaveId, tables, nextTableId,
                   sched>>

\* Server._handle_menu, its first lines: the user the packet is handled
\* for, "" when the connection has no username or _users has no entry.
handle_menu_user(client) ==
    IF client.username = "" THEN ""
    ELSE IF client.username \notin users THEN ""
    ELSE client.username

\* A menu packet of a connection: "play" in the main menu (down to the
\* tables menu) or "back" in the tables menu.
ClientMenu(c, selection) ==
    /\ gs.tag = "clients"
    /\ gs.conns[c].connected
    /\ LET name == IF on_client_message(gs.conns[c], "menu") = "_handle_menu"
                   THEN handle_menu_user(gs.conns[c]) ELSE ""
       IN IF name = ""
          THEN /\ out' = [NoOut EXCEPT !.req = "menu"]
               /\ userStates' = userStates
          ELSE IF userStates[name].menu = "main_menu" /\ selection = "play"
          THEN /\ userStates' = [userStates EXCEPT ![name] = MenuState("tables_menu")]
               /\ out' = [show_tables_menu(NoOut, tables, name, "milebymile")
                             EXCEPT !.req = "menu"]
          ELSE IF userStates[name].menu = "tables_menu" /\ selection = "back"
          THEN /\ userStates' = show_main_menu(userStates, name)
               /\ out' = [NoOut EXCEPT !.req = "menu", !.user = name]
          ELSE /\ out' = [NoOut EXCEPT !.req = "menu", !.user = name]
               /\ userStates' = userStates
    /\ UNCHANGED <<phase, dbTables, savedTables, nextSaveId, tables, nextTableId,
                   users, sched, gs>>

NextClients ==
    \/ \E c \in Clients : ClientConnect(c)
    \/ \E c \in Clients, u \in Users : ClientAuthorize(c, u)
    \/ \E c \in Clients : ClientDisconnect(c)
    \/ \E c \in Clients, selection \in {"play", "back"} : ClientMenu(c, selection)

SpecClients == InitClients /\ [][NextClients]_vars

\* C38: every connection that is authenticated and still connected has an
\* entry for its username in the server's user registry, under every
\* interleaving of authorizations and disconnections, two connections with
\* the same username included.
C38_AuthenticatedIsRegistered ==
    (gs.tag = "clients") =>
       \A c \in Clients :
          (gs.conns[c].connected /\ gs.conns[c].authenticated)
             => gs.conns[c].username \in users

(***************************************************************************)
(* The end of a game of UNO.                                               *)
(***************************************************************************)
\* C39: while a game of UNO is playing every active player holds at least
\* one card: the game is finished as soon as a hand is empty, whatever the
\* last card played was, a wild or a wild draw four included.
C39_PlayingHandsNonEmpty ==
    (gs.tag = "uno" /\ gs.game.status = "playing") =>
       \A id \in Range(active_ids(gs.game.players)) : gs.game.hands[id] # <<>>

(***************************************************************************)
(* SpecScopaCards: the cards of a round of Scopa.  A card is its id; the   *)
(* Italian deck gives the ids 0..39 of one deck the ranks 1..10 in each of *)
(* four suits.  g.attempts tells how many times the initial table was      *)
(* drawn, g.plays counts the cards played.                                 *)
(***************************************************************************)
ItalianDeckCards == 40

ItalianRanks == 10

ScopaMaxAttempts == 10

ScopaDefaultCardsPerDeal == 3

\* Card.rank of the card DeckFactory.italian_deck gives the id.
card_rank(id) == (id % ItalianRanks) + 1

\* DeckFactory.italian_deck, before its shuffle.
italian_deck(num_decks) == [i \in 1..(num_decks * ItalianDeckCards) |-> i - 1]

\* The orders random.shuffle leaves the cards in, in the model: the tens on
\* top, the tens at the bottom, or the cards as they were from the last.
ShuffleKinds == {"tens_first", "tens_last", "reversed"}

\* Deck.shuffle
shuffle(cards, kind) ==
    LET IsTen(c) == card_rank(c) = ItalianRanks
        NoTen(c) == card_rank(c) # ItalianRanks
    IN IF kind = "tens_first" THEN SelectSeq(cards, IsTen) \o SelectSeq(cards, NoTen)
       ELSE IF kind = "tens_last" THEN SelectSeq(cards, NoTen) \o SelectSeq(cards, IsTen)
       ELSE Reverse(cards)

\* Deck.draw: count cards from the top, and the deck they leave.
deck_draw(cards, count) ==
    [drawn |-> SubSeq(cards, 1, IF count < Len(cards) THEN count ELSE Len(cards)),
     cards |-> SubSeq(cards, (IF count < Len(cards) THEN count ELSE Len(cards)) + 1,
                      Len(cards))]

\* Deck.add: the cards go to the bottom.
deck_add(cards, more) == cards \o more

\* ScopaGame._start_round, the initial table: the deck and table_cards the
\* loop of at most ScopaMaxAttempts draws may leave, whatever the re-shuffles
\* give.  A draw with too many tens is put back under the deck, which is
\* shuffled; table_cards keeps the list last drawn.
RECURSIVE deal_initial_table(_, _, _, _)
deal_initial_table(cards, initial_table, number_of_decks, attempt) ==
    LET d == deck_draw(cards, initial_table)
        tens_count == Cardinality({i \in 1..Len(d.drawn) :
                                     card_rank(d.drawn[i]) = ItalianRanks})
        max_tens == ((4 * number_of_decks) \div 2) + 1
    IN IF tens_count <= max_tens
       THEN {[deck |-> d.cards, table_cards |-> d.drawn, attempts |-> attempt]}
       ELSE IF attempt = ScopaMaxAttempts
       THEN {[deck |-> shuffle(deck_add(d.cards, d.drawn), k),
              table_cards |-> d.drawn, attempts |-> attempt] : k \in ShuffleKinds}
       ELSE UNION {deal_initial_table(shuffle(deck_add(d.cards, d.drawn), k),
                                      initial_table, number_of_decks, attempt + 1) :
                     k \in ShuffleKinds}

NewScopaCards(ps, escoba) ==
    [tag |-> "cards", status |-> "waiting", players |-> ps,
     number_of_decks |-> 1, cards_per_deal |-> ScopaDefaultCardsPerDeal,
     escoba_rules |-> escoba,
     deck |-> <<>>, table_cards |-> <<>>,
     hand |-> [p \in Range(ps) |-> <<>>],
     captured |-> [p \in Range(ps) |-> <<>>],
     dealer_index |-> 0, turn_index |-> 0, last_capture_player |-> "",
     round_over |-> FALSE, attempts |-> 0, plays |-> 0]

\* ScopaGame._deal_cards: cards_per_deal cards from the top of the deck to
\* each player in order; the turn goes to the player after the dealer.
RECURSIVE cards_deal_to(_, _)
cards_deal_to(g, i) ==
    IF i > Len(g.players) THEN g
    ELSE LET d == deck_draw(g.deck, g.cards_per_deal)
         IN cards_deal_to([g EXCEPT !.deck = d.cards,
                                    !.hand[g.players[i]] = @ \o d.drawn], i + 1)

cards_deal_cards(g) ==
    IF g.deck = <<>> THEN g
    ELSE [cards_deal_to(g, 1) EXCEPT
             !.turn_index = (g.dealer_index + 1) % Len(g.players)]

\* ScopaGame._start_round, given the shuffled deck of _create_deck and the
\* outcome of the initial table.
cards_start_round(g, deck) ==
    LET n == Len(g.players)
        cards_for_players == g.cards_per_deal * n
        initial_table == Len(deck) % cards_for_players
        outcomes == IF g.escoba_rules
                    THEN {[deck |-> deck_draw(deck, initial_table).cards,
                           table_cards |-> deck_draw(deck, initial_table).drawn,
                           attempts |-> 1]}
                    ELSE deal_initial_table(deck, initial_table, g.number_of_decks, 1)
    IN {cards_deal_cards(
           [g EXCEPT !.status = "playing",
                     !.last_capture_player = "",
                     !.hand = [p \in DOMAIN @ |-> <<>>],
                     !.captured = [p \in DOMAIN @ |-> <<>>],
                     !.dealer_index = (@ - 1) % n,
                     !.turn_index = (((g.dealer_index - 1) % n) + 1) % n,
                     !.deck = o.deck, !.table_cards = o.table_cards,
                     !.attempts = o.attempts]) : o \in outcomes}

RECURSIVE rank_sum(_)
rank_sum(S) ==
    IF S = {} THEN 0
    ELSE LET c == CHOOSE x \in S : TRUE IN card_rank(c) + rank_sum(S \ {c})

\* find_captures and select_best_capture: the sets of table cards one of
\* which the played card takes; none when the set is empty.  In Scopa a card
\* of the same rank, else cards whose ranks add up to it; with the Escoba
\* rules cards that add up to 15 with it.
find_captures(table_cards, rank, escoba_rules) ==
    LET on_table == Range(table_cards)
        same == {{c} : c \in {x \in on_table : card_rank(x) = rank}}
    IN IF escoba_rules
       THEN {S \in SUBSET on_table : S # {} /\ rank_sum(S) + rank = 15}
       ELSE IF same # {} THEN same
       ELSE {S \in SUBSET on_table : S # {} /\ rank_sum(S) = rank}

\* ScopaGame._execute_capture
cards_execute_capture(g, p, card, capture) ==
    LET Stays(c) == c \notin capture
    IN [g EXCEPT !.table_cards = SelectSeq(@, Stays),
                 !.captured[p] = (@ \o <<card>>) \o SetToSeq(capture),
                 !.last_capture_player = p]

\* ScopaGame._end_round: the cards left on the table go to the last capturer.
cards_end_round(g) ==
    IF g.table_cards # <<>> /\ g.last_capture_player # ""
    THEN [g EXCEPT !.captured[g.last_capture_player] = @ \o g.table_cards,
                   !.table_cards = <<>>, !.round_over = TRUE]
    ELSE [g EXCEPT !.round_over = TRUE]

\* ScopaGame._end_turn
cards_end_turn(g) ==
    IF \A p \in Range(g.players) : g.hand[p] = <<>>
    THEN IF g.deck = <<>> THEN cards_end_round(g) ELSE cards_deal_cards(g)
    ELSE [g EXCEPT !.turn_index = (@ + 1) % Len(g.players)]

\* ScopaGame._play_card, capture being the best capture or {} for none.
cards_play_card(g, p, card, capture) ==
    LET Others(c) == c # card
        g1 == [g EXCEPT !.hand[p] = SelectSeq(@, Others), !.plays = @ + 1]
    IN cards_end_turn(IF capture # {} THEN cards_execute_capture(g1, p, card, capture)
                      ELSE [g1 EXCEPT !.table_cards = Append(@, card)])

InitScopaCards ==
    /\ phase = "running"
    /\ dbTables = <<>>
    /\ savedTables = {}
    /\ nextSaveId = 1
    /\ tables = <<>>
    /\ nextTableId = 1
    /\ users = {}
    /\ userStates = [u \in Users |-> NoState]
    /\ out = NoOut
    /\ sched = SchedIdle
    /\ \E escoba \in BOOLEAN :
          gs = [tag |-> "cards", game |-> NewScopaCards(<<"alice", "bob">>, escoba)]

\* ScopaGame.on_start: the first round is started; kind is the order the
\* deck's first shuffle gave.
CardsStart ==
    /\ gs.tag = "cards"
    /\ gs.game.status = "waiting"
    /\ \E kind \in ShuffleKinds :
          \E g1 \in cards_start_round(gs.game,
                                      shuffle(italian_deck(gs.game.number_of_decks),
                                              kind)) :
             gs' = [gs EXCEPT !.game = g1]
    /\ UNCHANGED <<serverVars, sched>>

\* The player in turn plays a card of the hand (_action_play_card).
CardsPlay(p, card) ==
    /\ gs.tag = "cards"
    /\ gs.game.status = "playing"
    /\ ~gs.game.round_over
    /\ gs.game.plays < MaxCardPlays
    /\ gs.game.players[gs.game.turn_index + 1] = p
    /\ card \in Range(gs.game.hand[p])
    /\ LET captures == find_captures(gs.game.table_cards, card_rank(card),
                                     gs.game.escoba_rules)
       IN \E capture \in (IF captures = {} THEN {{}} ELSE captures) :
             gs' = [gs EXCEPT !.game = cards_play_card(@, p, card, capture)]
    /\ UNCHANGED <<serverVars, sched>>

NextScopaCards ==
    \/ CardsStart
    \/ \E p \in Users, card \in 0..(ItalianDeckCards - 1) : CardsPlay(p, card)

SpecScopaCards == InitScopaCards /\ [][NextScopaCards]_vars

\* The cards of the round, wherever they are.
cards_everywhere(g) ==
    g.deck \o g.table_cards \o g.hand["alice"] \o g.hand["bob"]
      \o g.captured["alice"] \o g.captured["bob"]

\* C40: during a round of Scopa every card of the deck is in exactly one
\* place, the deck, the table, a hand or a captured pile: they are 40 times
\* the number of decks, and no card is in two places, also after the
\* initial table deal with its re-shuffles.
C40_EveryCardInOnePlace ==
    (gs.tag = "cards" /\ gs.game.status = "playing") =>
       /\ Len(cards_everywhere(gs.game)) = ItalianDeckCards * gs.game.number_of_decks
       /\ Range(cards_everywhere(gs.game))
            = 0..(ItalianDeckCards * gs.game.number_of_decks - 1)

====
